---------------------------- MODULE Spec2Model ----------------------------
(***************************************************************************)
(* Midas: MIDI event dispatch through a node graph.                        *)
(*                                                                         *)
(* The module models                                                       *)
(*   - the value mapper of logic.mapper nodes  (app/actions/engine.py),    *)
(*   - ControlProfile.matches_event            (app/midi/profiles.py),     *)
(*   - the NodeGraph editing operations        (app/nodes/graph.py),       *)
(*   - ActionEngine.handle_event and its recursive traversal, with the     *)
(*     Command action as the side-effecting leaf (app/actions/engine.py,   *)
(*     app/actions/command.py),                                            *)
(*   - the Command, Sound, Volume and Shortcut actions called on their own *)
(*     (app/actions/command.py, sound.py, volume.py, shortcut.py),         *)
(*   - the Script action and what its snippet can reach                    *)
(*     (app/actions/script.py),                                            *)
(*   - ControlProfileStore.load and serialize  (app/midi/profiles.py),     *)
(*   - the display of events on input nodes and export_graph               *)
(*     (app/ui/main_window.py, app/storage/workspace_store.py),            *)
(*   - the default preset dispatched by the engine (app/storage/           *)
(*     presets.py), and graphs of builtin nodes (app/nodes/builtin.py),    *)
(*   - the way of a message from the callback of a port to the slot that   *)
(*     calls handle_event (app/midi/controller.py, app/ui/main_window.py). *)
(*                                                                         *)
(* Python floats are modelled by exact rationals <<num, den>> (den > 0);   *)
(* the log and exp curves, which are transcendental, by fixed-point        *)
(* arithmetic of resolution 1/Scale.                                       *)
(***************************************************************************)
EXTENDS Integers, Sequences, FiniteSets, TLC

VARIABLES
    \* ---- NodeGraph (app/nodes/graph.py)
    nodes,          \* NodeGraph._nodes: sequence of Node records, in insertion order
    connections,    \* NodeGraph._connections: sequence of NodeConnection records
    call,           \* the last NodeGraph operation: its name, arguments, return value
    \* ---- ActionEngine.handle_event (app/actions/engine.py)
    pc,             \* "idle" | "primary" | "fallback" | "done" | "raised"
    event,          \* the event of the current handle_event call
    idx,            \* position of the root loops in nodes
    dispatched,     \* the local flag of handle_event
    triggered,      \* triggered_inputs of the current call
    visited,        \* the visited-signature set of the current call
    stack,          \* the frames of _traverse_node/_propagate_from_port in progress
    result,         \* what the last handle_event call returned
    processed,      \* history: the signature of every node processed in this call, in order
    skipped,        \* history: the signatures found in visited and skipped in this call
    spawned,        \* history: node ids for which CommandAction spawned a process in this call
    failed,         \* history: node ids whose action raised an exception in this call
    adjusted,       \* history: the calls of set_level in this call (node id and level)
    volume_last_value,  \* VolumeAction._last_value
    last_values,    \* CommandAction._last_values: control -> value (None when absent)
    entry_values,   \* history: last_values when the current call began
    previous,       \* history: what the call before processed, the graph of the
                    \* current call, and whether the current call repeats the one
                    \* before (same event, same graph, and that call returned)
    profiles,       \* ControlProfileStore._profiles: sequence of ControlProfile records
    \* ---- ActionEngine._apply_mapper as a function of its inputs
    m_cfg, m_in, m_out, m_pc,
    \* ---- ControlProfile.matches_event as a function of its inputs
    p_profile, p_event, p_out, p_pc,
    \* ---- the actions called directly: action.handle_event(event, node, context)
    a_node,         \* the node of the last call
    a_event,        \* the event of the last call
    a_effects,      \* history: what the last call did, in order
    a_seen,         \* history: node id -> the last event that reached the node
    sound_last_values,  \* SoundAction._last_values: control -> value (None when absent)
    \* ---- ControlProfileStore.load as a function of the store and its argument
    s_data,         \* the records handed to load
    s_old,          \* history: the store before load
    s_pc,
    s_source,       \* the store whose serialize() produced s_data, if one did
    \* ---- WorkspaceStore (app/storage/workspace_store.py)
    exported,       \* the payload of the last export_graph
    \* ---- ShortcutAction (app/actions/shortcut.py)
    shortcut_available,  \* ShortcutAction._available
    shortcut_warned,     \* ShortcutAction._warned
    shortcut_log,        \* the warnings logged so far, in order
    shortcut_hits,       \* history: the conditions events have hit so far
    \* ---- _SoundPlayer (app/actions/sound.py)
    sound_backend,       \* _SoundPlayer._backend (NULL: no backend detected)
    sound_warned_missing_backend,  \* _SoundPlayer._warned_missing_backend
    sound_log,           \* the warnings the Sound action logged so far, in order
    \* ---- ScriptAction (app/actions/script.py)
    script_pc,           \* "idle" or "exec": inside exec(script, globals, locals)
    script_held,         \* the objects the running snippet can name or has obtained
    script_access,       \* history: the kinds of access snippets have exercised
    \* ---- MidiInputController and the threads of the program
    d_queue,             \* the events posted to the event loop of the main thread
    d_running,           \* per thread: the stack of _handle_midi_event calls it is in
    d_emitted            \* how many messages the ports have delivered so far

graphVars   == <<nodes, connections, call>>
engineVars  == <<pc, event, idx, dispatched, triggered, visited, stack, result,
                 processed, skipped, spawned, failed, adjusted, volume_last_value,
                 last_values, entry_values, previous, profiles>>
mapperVars  == <<m_cfg, m_in, m_out, m_pc>>
profileVars == <<p_profile, p_event, p_out, p_pc>>
actionVars  == <<a_node, a_event, a_effects, a_seen, sound_last_values>>
storeVars   == <<s_data, s_old, s_pc, s_source>>
workspaceVars == <<exported>>
shortcutVars == <<shortcut_available, shortcut_warned, shortcut_log, shortcut_hits>>
playerVars == <<sound_backend, sound_warned_missing_backend, sound_log>>
scriptVars == <<script_pc, script_held, script_access>>
threadVars == <<d_queue, d_running, d_emitted>>
vars == <<nodes, connections, call, pc, event, idx, dispatched, triggered, visited,
          stack, result, processed, skipped, spawned, failed, adjusted, volume_last_value,
          last_values, entry_values, previous, profiles,
          m_cfg, m_in, m_out, m_pc, p_profile, p_event, p_out, p_pc,
          a_node, a_event, a_effects, a_seen, sound_last_values,
          s_data, s_old, s_pc, s_source, exported,
          shortcut_available, shortcut_warned, shortcut_log, shortcut_hits,
          sound_backend, sound_warned_missing_backend, sound_log,
          script_pc, script_held, script_access,
          d_queue, d_running, d_emitted>>

\* Python's None as the value of an optional string (source, profile_id).
NULL == "None"
\* Python's None as the value of an optional int (channel, control, value, note,
\* velocity): an integer that is no MIDI value, so that None == None and None != n.
None == -1000

-----------------------------------------------------------------------------
(* Bounds of the model.                                                    *)

\* Mapper bounds (input_min, input_max, output_min, output_max) range over 0..MaxCfg.
MaxCfg == 3
\* The "steps" config of a step curve ranges over 0..MaxSteps.
MaxSteps == 2
\* Event values range over -1..MaxValue (MaxValue lies above every mapper bound).
MaxValue == 4

-----------------------------------------------------------------------------
(* Arithmetic: exact rationals for Python floats.                          *)

Max(a, b) == IF a >= b THEN a ELSE b
Min(a, b) == IF a <= b THEN a ELSE b

\* Mutant of RoundHalfEven: ties rounded up, as round() did in Python 2.
RoundHalfUp(num, den) == (2 * num + den) \div (2 * den)

\* Python's round() of the rational num/den (den > 0): nearest integer, ties to even.
RoundHalfEven(num, den) ==
    LET q == num \div den
        r == num % den
    IN  IF 2 * r < den THEN q
        ELSE IF 2 * r > den THEN q + 1
        ELSE IF q % 2 = 0 THEN q ELSE q + 1

\* Resolution of the fixed-point arithmetic that stands for math.log1p and math.e**x.
Scale == 10000

\* Number of terms of the exponential series.
SeriesTerms == 12

RECURSIVE ExpSeries(_, _, _)
\* Scale * e^(y/Scale) - the terms after the k-th, term being the k-th term.
ExpSeries(y, k, term) ==
    IF k > SeriesTerms THEN 0
    ELSE term + ExpSeries(y, k + 1, (term * y) \div (Scale * (k + 1)))

\* Scale * e^(y/Scale) for y in 0..Scale.
ExpFixed(y) == ExpSeries(y, 0, Scale)

\* Scale * (math.e**n - 1) / (math.e - 1) for n = y/Scale.
ExpCurveFixed(y) == ((ExpFixed(y) - Scale) * Scale) \div (ExpFixed(Scale) - Scale)

RECURSIVE LogBisect(_, _, _)
\* The largest y in lo..hi with ExpCurveFixed(y) <= x: math.log1p(n * (math.e - 1))
\* is the inverse of the exp curve.
LogBisect(x, lo, hi) ==
    IF lo >= hi THEN lo
    ELSE LET mid == (lo + hi + 1) \div 2
         IN  IF ExpCurveFixed(mid) <= x THEN LogBisect(x, mid, hi)
             ELSE LogBisect(x, lo, mid - 1)

LogCurveFixed(x) == LogBisect(x, 0, Scale)

-----------------------------------------------------------------------------
(* ActionEngine._apply_mapper                                              *)

\* node.config is a dict: a function whose domain is the set of keys present.
\* node.config.get(key, default)
ConfigGet(config, key, default) ==
    IF key \in DOMAIN config THEN config[key] ELSE default

Curves == {"linear", "log", "exp", "step"}

\* Mutant of Normalize: the span counted as input_max - input_min + 1.
NormalizeOffByOne(value, input_min, input_max) ==
    LET den == Max(1, input_max - input_min + 1)
        num == value - input_min
    IN  <<Max(0, Min(den, num)), den>>

\* Lines 108-109: the normalized input, clamped to [0, 1], as <<num, den>>.
Normalize(value, input_min, input_max) ==
    LET den == Max(1, input_max - input_min)
        num == value - input_min
    IN  <<Max(0, Min(den, num)), den>>

\* Lines 111-118: the curve applied to the normalized value n = <<num, den>>.
ApplyCurve(config, n) ==
    LET curve == ConfigGet(config, "curve", "linear")
    IN  IF curve = "log" THEN <<LogCurveFixed((n[1] * Scale) \div n[2]), Scale>>
        ELSE IF curve = "exp" THEN <<ExpCurveFixed((n[1] * Scale) \div n[2]), Scale>>
        ELSE IF curve = "step"
             THEN LET steps == Max(1, ConfigGet(config, "steps", 8))
                  IN  <<RoundHalfEven(n[1] * steps, n[2]), steps>>
        ELSE n

\* Mutant of ClampRound: int(round(mapped_value)), the clamp left out.
RoundUnclamped(output_min, output_max, num, den) == RoundHalfEven(num, den)

\* Line 121: int(round(max(output_min, min(output_max, mapped_value)))) for
\* mapped_value = num/den.
ClampRound(output_min, output_max, num, den) ==
    LET upper == IF output_max * den <= num THEN <<output_max * den, den>> ELSE <<num, den>>
        lower == IF output_min * den >= upper[1] THEN <<output_min * den, den>> ELSE upper
    IN  RoundHalfEven(lower[1], lower[2])

\* Lines 101-121: the mapped value of a non-null event value.
MapValue(config, value) ==
    LET input_min  == ConfigGet(config, "input_min", 0)
        input_max  == ConfigGet(config, "input_max", 127)
        output_min == ConfigGet(config, "output_min", 0)
        output_max == ConfigGet(config, "output_max", 127)
        n == ApplyCurve(config, Normalize(value, input_min, input_max))
        mapped_num == output_min * n[2] + n[1] * (output_max - output_min)
    IN  ClampRound(output_min, output_max, mapped_num, n[2])

\* Lines 97-123: replace(event, value=clamped_value), or the event itself when
\* its value is None.
\* Mutant of ApplyMapper: an event without a value is mapped as the value 0.
ApplyMapperNullAsZero(config, ev) ==
    [ev EXCEPT !.value = MapValue(config, IF ev.value = None THEN 0 ELSE ev.value)]

ApplyMapper(config, ev) ==
    IF ev.value = None THEN ev
    ELSE [ev EXCEPT !.value = MapValue(config, ev.value)]


-----------------------------------------------------------------------------
(* MidiEvent (app/midi/events.py), without the raw message.                *)

MidiEvent(message_type, channel, control, value, note, velocity, source, aliases) ==
    [message_type |-> message_type, channel |-> channel, control |-> control,
     value |-> value, note |-> note, velocity |-> velocity,
     source |-> source, aliases |-> aliases]

\* ControlProfile (app/midi/profiles.py)
ControlProfile(id, name, device_port, message_type, control_type, channel, control, note, aliases) ==
    [id |-> id, name |-> name, device_port |-> device_port,
     message_type |-> message_type, control_type |-> control_type,
     channel |-> channel, control |-> control, note |-> note, aliases |-> aliases]

\* control_change(control=7, value=v) on channel 0 from port source.
ControlChange(v, source) ==
    MidiEvent("control_change", 0, 7, v, None, None, source, <<>>)

\* The idle values of the variables a specification does not use.
NoCall == [op |-> "none"]
NoEvent == ControlChange(None, NULL)
\* A config holding only the key add_node sets (graph.py line 39).
NoConfig == [position |-> <<0, 0>>]
\* The controls CommandAction and SoundAction key their debounce on: controls 3
\* and 7, and -1 for an event without a control (command.py line 45).
Controls == {-1, 3, 7}
\* An empty _last_values dict: no control has a value.
NoValues == [c \in Controls |-> None]
\* No call to compare the current one with, and no call begun yet.
Untracked == [tracked |-> FALSE, processed |-> <<>>, nodes |-> <<>>, connections |-> <<>>]

GraphIdle ==
    /\ nodes = <<>>
    /\ connections = <<>>
    /\ call = NoCall

EngineIdle ==
    /\ pc = "idle"
    /\ event = NoEvent
    /\ idx = 0
    /\ dispatched = FALSE
    /\ triggered = <<>>
    /\ visited = {}
    /\ stack = <<>>
    /\ result = <<>>
    /\ processed = <<>>
    /\ skipped = <<>>
    /\ spawned = <<>>
    /\ failed = <<>>
    /\ adjusted = <<>>
    /\ volume_last_value = None
    /\ last_values = NoValues
    /\ entry_values = NoValues
    /\ previous = Untracked
    /\ profiles = <<>>

MapperIdle ==
    /\ m_cfg = NoConfig
    /\ m_in = NoEvent
    /\ m_out = NoEvent
    /\ m_pc = "idle"

NoProfile == ControlProfile(NULL, NULL, NULL, NULL, NULL, None, None, None, <<>>)

ProfileIdle ==
    /\ p_profile = NoProfile
    /\ p_event = NoEvent
    /\ p_out = FALSE
    /\ p_pc = "idle"

\* The ids of the nodes the actions are called on directly.
ActionIds == {"n1", "n2", "n3"}

\* No node: the node of no call.
NoActionNode ==
    [id |-> NULL, type |-> NULL, title |-> NULL, inputs |-> <<>>, outputs |-> <<>>,
     config |-> NoConfig]

ActionIdle ==
    /\ a_node = NoActionNode
    /\ a_event = NoEvent
    /\ a_effects = <<>>
    /\ a_seen = [id \in ActionIds |-> NoEvent]
    /\ sound_last_values = NoValues

\* No payload: nothing was exported yet.
NoPayload == [version |-> 0, nodes |-> <<>>, connections |-> <<>>]

WorkspaceIdle == exported = NoPayload

\* The threads of the program: the main thread, which runs the event loop of
\* the application and owns the window and the controller, and the thread on
\* which the MIDI backend calls the callback of each open port.
Ports == {"portA", "portB"}
Threads == {"main"} \cup Ports

ThreadsIdle ==
    /\ d_queue = <<>>
    /\ d_running = [t \in Threads |-> <<>>]
    /\ d_emitted = 0

ScriptIdle ==
    /\ script_pc = "idle"
    /\ script_held = {}
    /\ script_access = {}

PlayerIdle ==
    /\ sound_backend = NULL
    /\ sound_warned_missing_backend = FALSE
    /\ sound_log = <<>>

ShortcutIdle ==
    /\ shortcut_available = FALSE
    /\ shortcut_warned = FALSE
    /\ shortcut_log = <<>>
    /\ shortcut_hits = {}

StoreIdle ==
    /\ s_data = <<>>
    /\ s_old = <<>>
    /\ s_pc = "idle"
    /\ s_source = <<>>

-----------------------------------------------------------------------------
(* SpecMapper: _apply_mapper applied to every configuration and input of   *)
(* the bounds.                                                             *)

CfgVals == 0..MaxCfg

\* The dict d without the keys in absent.
Without(d, absent) == [k \in DOMAIN d \ absent |-> d[k]]

\* The config of a logic.mapper node: every combination of bounds and curve (the
\* curve key present or absent), the "steps" key present or absent with the step
\* curve, and the config with no mapper key at all.
MapperConfigs ==
    { Without([position |-> <<0, 0>>, input_min |-> a, input_max |-> b,
               output_min |-> c, output_max |-> d, curve |-> cv, steps |-> 0], absent) :
        a \in CfgVals, b \in CfgVals, c \in CfgVals, d \in CfgVals,
        cv \in Curves \ {"step"}, absent \in {{"steps"}, {"steps", "curve"}} }
    \cup
    { Without([position |-> <<0, 0>>, input_min |-> a, input_max |-> b,
               output_min |-> c, output_max |-> d, curve |-> "step", steps |-> st], absent) :
        a \in CfgVals, b \in CfgVals, c \in CfgVals, d \in CfgVals,
        st \in 0..MaxSteps, absent \in {{}, {"steps"}} }
    \cup {NoConfig}

EventValues == (-1..MaxValue) \cup {None}

InitMapper ==
    /\ ThreadsIdle
    /\ GraphIdle /\ EngineIdle /\ ProfileIdle /\ ActionIdle /\ StoreIdle /\ WorkspaceIdle
    /\ ShortcutIdle /\ PlayerIdle /\ ScriptIdle
    /\ m_cfg \in MapperConfigs
    /\ m_in \in {ControlChange(v, "portA") : v \in EventValues}
    /\ m_out = NoEvent
    /\ m_pc = "ready"

ApplyMapperCall ==
    /\ m_pc = "ready"
    /\ m_out' = ApplyMapper(m_cfg, m_in)
    /\ m_pc' = "done"
    /\ UNCHANGED <<m_cfg, m_in>>
    /\ UNCHANGED <<graphVars, engineVars, profileVars, actionVars, storeVars, workspaceVars,
                   shortcutVars, playerVars, scriptVars, threadVars>>

NextMapper == ApplyMapperCall

SpecMapper == InitMapper /\ [][NextMapper]_vars

-----------------------------------------------------------------------------
(* ControlProfile.matches_event (app/midi/profiles.py)                     *)

\* x in seq, for a Python tuple or list.
InSeq(x, seq) == \E i \in DOMAIN seq : seq[i] = x

\* Mutant of matches_event: the device test rejects an event whose source differs
\* from device_port even when device_port is one of the event's aliases.
MatchesEventSourceOnly(profile, ev) ==
    IF ev.source # profile.device_port THEN FALSE
    ELSE IF ev.message_type # profile.message_type THEN FALSE
    ELSE IF profile.channel # None /\ ev.channel # profile.channel THEN FALSE
    ELSE IF profile.control # None /\ ev.control # profile.control THEN FALSE
    ELSE IF profile.note # None /\ ev.note # profile.note THEN FALSE
    ELSE TRUE

\* ControlProfile.matches_event: the chain of early returns.
MatchesEvent(profile, ev) ==
    IF ev.source # profile.device_port /\ ~InSeq(profile.device_port, ev.aliases)
    THEN FALSE
    ELSE IF ev.message_type # profile.message_type THEN FALSE
    ELSE IF profile.channel # None /\ ev.channel # profile.channel THEN FALSE
    ELSE IF profile.control # None /\ ev.control # profile.control THEN FALSE
    ELSE IF profile.note # None /\ ev.note # profile.note THEN FALSE
    ELSE TRUE

-----------------------------------------------------------------------------
(* SpecProfile: matches_event applied to every profile and event of the    *)
(* bounds.                                                                 *)

\* channel, control and note of profiles and events range over None and 0..MaxField.
MaxField == 1

OptFields == {None} \cup (0..MaxField)
MessageTypes == {"control_change", "note_on"}
AliasTuples == {<<>>, <<"portB">>, <<"virtual", "portA">>}

InitProfile ==
    /\ ThreadsIdle
    /\ GraphIdle /\ EngineIdle /\ MapperIdle /\ ActionIdle /\ StoreIdle /\ WorkspaceIdle
    /\ ShortcutIdle /\ PlayerIdle /\ ScriptIdle
    /\ p_profile \in
        { ControlProfile("p1", "Profile", port, type, "continuous", ch, ctl, nt, <<>>) :
            port \in Ports, type \in MessageTypes,
            ch \in OptFields, ctl \in OptFields, nt \in OptFields }
    /\ p_event \in
        { MidiEvent(type, ch, ctl, None, nt, None, src, al) :
            type \in MessageTypes, ch \in OptFields, ctl \in OptFields,
            nt \in OptFields, src \in Ports \cup {NULL}, al \in AliasTuples }
    /\ p_out = FALSE
    /\ p_pc = "ready"

MatchesEventCall ==
    /\ p_pc = "ready"
    /\ p_out' = MatchesEvent(p_profile, p_event)
    /\ p_pc' = "done"
    /\ UNCHANGED <<p_profile, p_event>>
    /\ UNCHANGED <<graphVars, engineVars, mapperVars, actionVars, storeVars, workspaceVars,
                   shortcutVars, playerVars, scriptVars, threadVars>>

NextProfile == MatchesEventCall

SpecProfile == InitProfile /\ [][NextProfile]_vars

-----------------------------------------------------------------------------
(* Node, NodePort (app/nodes/base.py) and the builtin templates            *)
(* (app/nodes/builtin.py).                                                 *)

NodePort(name, direction, data_type) ==
    [name |-> name, direction |-> direction, data_type |-> data_type]

Node(id, type, title, inputs, outputs, config) ==
    [id |-> id, type |-> type, title |-> title, inputs |-> inputs,
     outputs |-> outputs, config |-> config]

NodeTemplate(type, title, input_ports, output_ports, default_config) ==
    [type |-> type, title |-> title, input_ports |-> input_ports,
     output_ports |-> output_ports, default_config |-> default_config]

\* _TEMPLATES, by type (_TEMPLATE_MAP). output_max of action.volume is 1.0.
Templates ==
    [t \in {"midi.input", "logic.mapper", "action.volume", "action.script",
            "action.command"} |->
        CASE t = "midi.input" ->
               NodeTemplate(t, "MIDI Input", <<>>, <<<<"message", "midi">>>>,
                            [position |-> <<0, 0>>])
          [] t = "logic.mapper" ->
               NodeTemplate(t, "Value Mapper", <<<<"in", "midi">>>>, <<<<"out", "midi">>>>,
                            [position |-> <<0, 0>>, input_min |-> 0, input_max |-> 127,
                             output_min |-> 0, output_max |-> 127, curve |-> "linear"])
          [] t = "action.volume" ->
               NodeTemplate(t, "Volume Control", <<<<"in", "midi">>>>, <<>>,
                            [position |-> <<0, 0>>, input_min |-> 0, input_max |-> 127,
                             output_min |-> 0, output_max |-> 1, sink |-> ""])
          [] t = "action.script" ->
               NodeTemplate(t, "Script Action", <<<<"trigger", "midi">>>>, <<>>,
                            [position |-> <<0, 0>>, script |-> "# write Python code here\n"])
          [] t = "action.command" ->
               NodeTemplate(t, "Command Runner", <<<<"trigger", "midi">>>>, <<>>,
                            [position |-> <<0, 0>>, command |-> "", shell |-> FALSE,
                             cwd |-> ""]) ]

\* NodeTemplate.instantiate; the "position" key is the one add_node sets.
Instantiate(template, node_id) ==
    Node(node_id, template.type, template.title,
         [i \in DOMAIN template.input_ports |->
            NodePort(template.input_ports[i][1], "INPUT", template.input_ports[i][2])],
         [i \in DOMAIN template.output_ports |->
            NodePort(template.output_ports[i][1], "OUTPUT", template.output_ports[i][2])],
         template.default_config)

-----------------------------------------------------------------------------
(* NodeGraph (app/nodes/graph.py). Groups are not modelled.                *)

NodeConnection(source_node, source_port, target_node, target_port) ==
    [source_node |-> source_node, source_port |-> source_port,
     target_node |-> target_node, target_port |-> target_port]

\* The keys of the dict _nodes.
NodeIdsOf(ns) == {ns[i].id : i \in DOMAIN ns}

\* _nodes.get(node_id): the node, or NoNode for None.
NoNode == Node(NULL, NULL, NULL, <<>>, <<>>, NoConfig)
GetNode(ns, node_id) ==
    IF node_id \in NodeIdsOf(ns)
    THEN ns[CHOOSE i \in DOMAIN ns : ns[i].id = node_id]
    ELSE NoNode

\* _nodes[node.id] = node: a new key goes last, an existing key keeps its place.
PutNode(ns, node) ==
    IF node.id \in NodeIdsOf(ns)
    THEN [i \in DOMAIN ns |-> IF ns[i].id = node.id THEN node ELSE ns[i]]
    ELSE Append(ns, node)

\* get_port: the first port of node.inputs + node.outputs with that name, or
\* NoPort for None.
NoPort == NodePort(NULL, NULL, NULL)
GetPort(ns, node_id, port_name) ==
    LET node == GetNode(ns, node_id)
        ports == node.inputs \o node.outputs
        named == {i \in DOMAIN ports : ports[i].name = port_name}
    IN  IF node = NoNode \/ named = {} THEN NoPort
        ELSE ports[CHOOSE i \in named : \A j \in named : i <= j]

\* _is_compatible
IsCompatible(source, target) ==
    IF source.data_type = "any" \/ target.data_type = "any" THEN TRUE
    ELSE source.data_type = target.data_type

\* _find_connection(...) is not None
FindConnection(conns, edge) == \E i \in DOMAIN conns : conns[i] = edge

\* Mutant of TargetTaken: the loop over the connections left out.
TargetNeverTaken(conns, edge) == FALSE

\* Lines 101-106 of can_connect: some connection already ends at the target port.
TargetTaken(conns, edge) ==
    \E i \in DOMAIN conns :
        /\ conns[i].target_node = edge.target_node
        /\ conns[i].target_port = edge.target_port

\* Mutant of CanConnect: the single-incoming-edge test made before the
\* duplicate-edge test.
CanConnectTakenFirst(ns, conns, edge) ==
    LET source == GetPort(ns, edge.source_node, edge.source_port)
        target == GetPort(ns, edge.target_node, edge.target_port)
    IN  IF edge.source_node = edge.target_node
        THEN <<FALSE, "Cannot connect a node to itself.">>
        ELSE IF source = NoPort \/ target = NoPort
        THEN <<FALSE, "One of the ports does not exist.">>
        ELSE IF source.direction # "OUTPUT"
        THEN <<FALSE, "Source port must be an output.">>
        ELSE IF target.direction # "INPUT"
        THEN <<FALSE, "Target port must be an input.">>
        ELSE IF ~IsCompatible(source, target)
        THEN <<FALSE, "Incompatible port data types.">>
        ELSE IF TargetTaken(conns, edge)
        THEN <<FALSE, "Target port already has an incoming connection.">>
        ELSE IF FindConnection(conns, edge)
        THEN <<FALSE, "Connection already exists.">>
        ELSE <<TRUE, NULL>>

\* can_connect: <<ok, reason>>.
CanConnect(ns, conns, edge) ==
    LET source == GetPort(ns, edge.source_node, edge.source_port)
        target == GetPort(ns, edge.target_node, edge.target_port)
    IN  IF edge.source_node = edge.target_node
        THEN <<FALSE, "Cannot connect a node to itself.">>
        ELSE IF source = NoPort \/ target = NoPort
        THEN <<FALSE, "One of the ports does not exist.">>
        ELSE IF source.direction # "OUTPUT"
        THEN <<FALSE, "Source port must be an output.">>
        ELSE IF target.direction # "INPUT"
        THEN <<FALSE, "Target port must be an input.">>
        ELSE IF ~IsCompatible(source, target)
        THEN <<FALSE, "Incompatible port data types.">>
        ELSE IF FindConnection(conns, edge)
        THEN <<FALSE, "Connection already exists.">>
        ELSE IF TargetTaken(conns, edge)
        THEN <<FALSE, "Target port already has an incoming connection.">>
        ELSE <<TRUE, NULL>>

\* Mutant of ConnectEdges: the edge appended whatever can_connect said.
ConnectUnchecked(ok, conns, edge) == Append(conns, edge)

\* Lines 118-123 of connect: the connection list after the call.
ConnectEdges(ok, conns, edge) ==
    IF ~ok THEN conns ELSE Append(conns, edge)

\* Mutant of RemoveNodeEdges: only the edges leaving the node dropped.
RemoveOutgoingOnly(conns, node_id) ==
    LET Keep(c) == c.source_node # node_id
    IN  SelectSeq(conns, Keep)

\* Lines 44-49 of remove_node: the connection list after the call.
RemoveNodeEdges(conns, node_id) ==
    LET Keep(c) == c.source_node # node_id /\ c.target_node # node_id
    IN  SelectSeq(conns, Keep)

\* Lines 132-141 of disconnect: the connection list after the call.
DisconnectEdges(conns, edge) ==
    LET Keep(c) == ~( /\ c.source_node = edge.source_node
                      /\ c.source_port = edge.source_port
                      /\ c.target_node = edge.target_node
                      /\ c.target_port = edge.target_port )
    IN  SelectSeq(conns, Keep)

\* is_empty
IsEmpty(ns) == ns = <<>>

-----------------------------------------------------------------------------
(* SpecGraph: the editing operations of NodeGraph, in any order, on nodes  *)
(* instantiated from the builtin templates and one node built directly.    *)

NodeIds == {"n1", "n2", "n3"}
\* <<source_port, target_port>> of the connect calls: the two proper pairs, an
\* input port as the source, an output port as the target.
PortPairs == {<<"message", "in">>, <<"out", "in">>, <<"in", "in">>, <<"out", "out">>}

\* A node that is not built from a template: an "audio" input and an "any" output.
AudioNode(node_id) ==
    Node(node_id, "custom.audio", "Audio",
         <<NodePort("in", "INPUT", "audio")>>, <<NodePort("out", "OUTPUT", "any")>>,
         NoConfig)

\* The nodes add_node is called with.
NewNodes(node_id) ==
    CASE node_id = "n1" -> {Instantiate(Templates["midi.input"], node_id),
                            Instantiate(Templates["logic.mapper"], node_id)}
      [] node_id = "n2" -> {Instantiate(Templates["logic.mapper"], node_id),
                            AudioNode(node_id)}
      [] OTHER -> {Instantiate(Templates["action.volume"], node_id)}

Edges ==
    { NodeConnection(sn, pp[1], tn, pp[2]) :
        sn \in NodeIds, tn \in NodeIds, pp \in PortPairs }

\* An edge no connect call of the model creates: disconnect of it is a no-op.
AbsentEdge == NodeConnection("n1", "in", "n1", "in")

InitGraph ==
    /\ ThreadsIdle
    /\ EngineIdle /\ MapperIdle /\ ProfileIdle /\ ActionIdle /\ StoreIdle /\ WorkspaceIdle
    /\ ShortcutIdle /\ PlayerIdle /\ ScriptIdle
    /\ nodes = <<>>
    /\ connections = <<>>
    /\ call = NoCall

\* add_node(node)
AddNode(node) ==
    /\ nodes' = PutNode(nodes, [node EXCEPT !.config =
                    IF "position" \in DOMAIN node.config THEN node.config
                    ELSE [k \in DOMAIN node.config \cup {"position"} |->
                            IF k = "position" THEN <<0, 0>> ELSE node.config[k]]])
    /\ call' = [op |-> "add_node"]
    /\ UNCHANGED connections
    /\ UNCHANGED <<engineVars, mapperVars, profileVars, actionVars, storeVars, workspaceVars,
                   shortcutVars, playerVars, scriptVars, threadVars>>

\* remove_node(node_id); call.dropped counts the connections it removed.
RemoveNode(node_id) ==
    /\ nodes' = LET Keep(n) == n.id # node_id IN SelectSeq(nodes, Keep)
    /\ connections' = RemoveNodeEdges(connections, node_id)
    /\ call' = [op |-> "remove_node",
                dropped |-> Len(connections) - Len(connections')]
    /\ UNCHANGED <<engineVars, mapperVars, profileVars, actionVars, storeVars, workspaceVars,
                   shortcutVars, playerVars, scriptVars, threadVars>>

\* connect(source_node, source_port, target_node, target_port)
Connect(edge) ==
    LET can == CanConnect(nodes, connections, edge)
    IN  /\ connections' = ConnectEdges(can[1], connections, edge)
        /\ call' = [op |-> "connect", ret |-> can[1]]
        /\ UNCHANGED nodes
        /\ UNCHANGED <<engineVars, mapperVars, profileVars, actionVars, storeVars,
                       workspaceVars, shortcutVars, playerVars, scriptVars, threadVars>>

\* disconnect(source_node, source_port, target_node, target_port)
Disconnect(edge) ==
    /\ connections' = DisconnectEdges(connections, edge)
    /\ call' = [op |-> "disconnect"]
    /\ UNCHANGED nodes
    /\ UNCHANGED <<engineVars, mapperVars, profileVars, actionVars, storeVars, workspaceVars,
                   shortcutVars, playerVars, scriptVars, threadVars>>

\* clear()
Clear ==
    /\ nodes' = <<>>
    /\ connections' = <<>>
    /\ call' = [op |-> "clear"]
    /\ UNCHANGED <<engineVars, mapperVars, profileVars, actionVars, storeVars, workspaceVars,
                   shortcutVars, playerVars, scriptVars, threadVars>>

NextGraph ==
    \/ \E id \in NodeIds : \E node \in NewNodes(id) : AddNode(node)
    \/ \E id \in NodeIds : RemoveNode(id)
    \/ \E edge \in Edges : Connect(edge)
    \/ \E edge \in {connections[i] : i \in DOMAIN connections} \cup {AbsentEdge} :
         Disconnect(edge)
    \/ Clear

SpecGraph == InitGraph /\ [][NextGraph]_vars

-----------------------------------------------------------------------------
(* CommandAction.handle_event (app/actions/command.py)                      *)

\* shlex.split of a command string without blanks or quotes.
EnsureSequence(command) == IF command = "" THEN <<>> ELSE <<command>>

\* handle_event(event, node, context): the _last_values it leaves and whether it
\* reaches subprocess.Popen. A config key that is absent reads as None.
CommandHandle(config, ev, lv) ==
    LET has_command == "command" \in DOMAIN config
        has_args    == "args" \in DOMAIN config
        shell       == ConfigGet(config, "shell", FALSE)
        control     == IF ev.control # None THEN ev.control ELSE -1
        is_cc       == ev.message_type = "control_change"
        unchanged   == is_cc /\ lv[control] = ev.value
        silent      == ev.message_type = "note_on" /\ ev.velocity \in {None, 0}
        stored      == IF is_cc /\ ev.value # None THEN [lv EXCEPT ![control] = ev.value]
                       ELSE lv
        command_str == IF has_command THEN config.command ELSE ""
        base_command == IF has_args /\ config.args # <<>> THEN config.args
                        ELSE IF has_command THEN EnsureSequence(config.command)
                        ELSE <<>>
        popen       == IF shell THEN command_str # "" ELSE base_command # <<>>
    IN  IF ~has_command /\ ~has_args THEN [last_values |-> lv, spawn |-> FALSE]
        ELSE IF unchanged \/ silent THEN [last_values |-> lv, spawn |-> FALSE]
        ELSE [last_values |-> stored, spawn |-> popen]

-----------------------------------------------------------------------------
(* ActionEngine (app/actions/engine.py)                                     *)

\* ControlProfileStore.get(profile_id); NoProfile for None.
StoreGet(store, profile_id) ==
    IF \E i \in DOMAIN store : store[i].id = profile_id
    THEN store[CHOOSE i \in DOMAIN store : store[i].id = profile_id]
    ELSE NoProfile

\* matching_profiles of handle_event: the profiles of the store that match the event.
MatchingProfiles(store, ev) ==
    LET Matches(profile) == MatchesEvent(profile, ev) IN SelectSeq(store, Matches)

\* Mutant of NodeAcceptsEvent: the profile_id of the node is not looked at.
AcceptsWithoutProfile(node, ev, matching, store) ==
    LET device_ports == ConfigGet(node.config, "device_ports", <<>>)
    IN  \/ device_ports = <<>>
        \/ InSeq(ev.source, device_ports)
        \/ \E i \in DOMAIN ev.aliases : InSeq(ev.aliases[i], device_ports)

\* _node_accepts_event(node, event, matching_profiles)
NodeAcceptsEvent(node, ev, matching, store) ==
    LET device_ports == ConfigGet(node.config, "device_ports", <<>>)
        profile_id   == ConfigGet(node.config, "profile_id", NULL)
        matched      == StoreGet(matching, profile_id)
        profile      == IF matched # NoProfile THEN matched ELSE StoreGet(store, profile_id)
    IN  IF /\ device_ports # <<>>
           /\ ~InSeq(ev.source, device_ports)
           /\ ~\E i \in DOMAIN ev.aliases : InSeq(ev.aliases[i], device_ports)
        THEN FALSE
        ELSE IF /\ profile_id \notin {NULL, ""}
                /\ (profile = NoProfile \/ ~MatchesEvent(profile, ev))
        THEN FALSE
        ELSE TRUE

\* Mutant of HasIncoming: no node has an incoming connection.
NoIncoming(conns, node_id) == FALSE

\* incoming(node_id) is not empty
HasIncoming(conns, node_id) == \E i \in DOMAIN conns : conns[i].target_node = node_id

\* connections_from(node_id, port_name)
ConnectionsFrom(conns, node_id, port_name) ==
    LET From(c) == c.source_node = node_id /\ c.source_port = port_name
    IN  SelectSeq(conns, From)

\* The node types for which type.startswith("action.") holds.
ActionTypes ==
    {"action.volume", "action.script", "action.command", "action.shortcut", "action.sound"}

\* A config value that is no number: a string such as "abc", or None.
Invalid == -2000

\* Mutant of VolumeLevel: the value taken as a percentage, whatever the input
\* bounds of the node.
VolumeLevelPercent(config, value) == <<Max(0, Min(100, value)), 100>>

\* Lines 76-87 of volume.py: the level of a value, as a rational. The bounds
\* of the config are integers.
VolumeLevel(config, value) ==
    LET input_min  == ConfigGet(config, "input_min", 0)
        input_max  == ConfigGet(config, "input_max", 127)
        output_min == ConfigGet(config, "output_min", 0)
        output_max == ConfigGet(config, "output_max", 1)
        span       == Max(1, input_max - input_min)
        normalized == Max(0, Min(span, value - input_min))
    IN  <<output_min * span + normalized * (output_max - output_min), span>>

\* VolumeAction.handle_event(event, node, context): the _last_value it leaves,
\* whether it reaches set_level and with which level, and whether int() or
\* float() of a config value raises, which happens once the value of the event
\* has been stored.
VolumeHandle(config, ev, last_value) ==
    LET Bad(key) == key \in DOMAIN config /\ config[key] = Invalid
        raises == \E key \in {"input_min", "input_max", "output_min", "output_max"} : Bad(key)
    IN  IF ev.value = None \/ last_value = ev.value
        THEN [last_value |-> last_value, set_level |-> FALSE, raised |-> FALSE,
              level |-> <<0, 1>>]
        ELSE [last_value |-> ev.value, set_level |-> ~raises, raised |-> raises,
              level |-> IF raises THEN <<0, 1>> ELSE VolumeLevel(config, ev.value)]

\* Mutant of ActionEscapes: _process_action_node without its try.
ActionEscapesUncaught(raised) == raised

\* "except Exception" of _process_action_node: the exception of an action does
\* not leave it.
ActionEscapes(raised) == FALSE

\* Mutant of EngineTable: a debounce table for each action.command node, which
\* for a node not reached before in the call is the table as the call began.
OwnTable(shared, own) == own

\* "self._actions.get(node.type)": the engine holds one CommandAction, made in
\* __init__, and hands every action.command node to it, so all of them read
\* and write the one _last_values of that object.
EngineTable(shared, own) == shared

\* _process_action_node: the state of the actions it leaves and what the action
\* did. The Command and Volume actions are modelled; the others do nothing.
ProcessActionNode(node, ev, st) ==
    LET commanded == CommandHandle(node.config, ev, EngineTable(st.last_values, entry_values))
        levelled  == VolumeHandle(node.config, ev, st.volume_last_value)
    IN  IF node.type = "action.command"
        THEN [st EXCEPT !.last_values = commanded.last_values,
                        !.spawned = IF commanded.spawn THEN Append(@, node.id) ELSE @]
        ELSE IF node.type = "action.volume"
        THEN [st EXCEPT !.volume_last_value = levelled.last_value,
                        !.adjusted = IF levelled.set_level
                                     THEN Append(@, [id |-> node.id, level |-> levelled.level])
                                     ELSE @,
                        !.failed = IF levelled.raised THEN Append(@, node.id) ELSE @,
                        !.escaped = ActionEscapes(levelled.raised)]
        ELSE st

\* _apply_mapper raises: float() or int() of a config value that is no number.
\* steps is read for the step curve only.
MapperRaises(config, ev) ==
    LET Bad(key) == key \in DOMAIN config /\ config[key] = Invalid
    IN  /\ ev.value # None
        /\ \/ \E key \in {"input_min", "input_max", "output_min", "output_max"} : Bad(key)
           \/ ConfigGet(config, "curve", "linear") = "step" /\ Bad("steps")

\* The signature _traverse_node keys the visited set on.
Signature(node, ev) == <<node.id, ev.channel, ev.control, ev.note, ev.value>>

\* "signature in visited"
AlreadyVisited(signature, seen) == signature \in seen

\* Mutant of NewVisited: the set of the call before is kept.
KeptVisited(seen) == seen

\* "visited = set()": each call of handle_event begins with an empty set.
NewVisited(seen) == {}

\* Mutant of SharedVisited: every root starts from an empty visited set.
FreshVisited(seen) == {}

\* "visited=visited": the roots of one call are handed the same set.
SharedVisited(seen) == seen

\* The part of the state a traversal step reads and writes.
\* escaped: an exception is leaving the traversal.
Here ==
    [visited |-> visited, stack |-> stack, processed |-> processed,
     skipped |-> skipped, last_values |-> last_values, spawned |-> spawned,
     failed |-> failed, adjusted |-> adjusted, volume_last_value |-> volume_last_value,
     escaped |-> FALSE]

\* An exception that leaves the traversal unwinds its frames and ends
\* handle_event, which catches nothing.
Becomes(st) ==
    /\ pc' = IF st.escaped THEN "raised" ELSE pc
    /\ visited' = st.visited
    /\ stack' = IF st.escaped THEN <<>> ELSE st.stack
    /\ processed' = st.processed
    /\ skipped' = st.skipped
    /\ last_values' = st.last_values
    /\ spawned' = st.spawned
    /\ failed' = st.failed
    /\ adjusted' = st.adjusted
    /\ volume_last_value' = st.volume_last_value

\* _traverse_node(node, event, ...) up to its call of _propagate_from_port, which
\* becomes a frame of the stack holding the connections still to follow.
TraverseNode(node, ev, conns, st) ==
    LET signature == Signature(node, ev)
        seen == [st EXCEPT !.visited = @ \cup {signature},
                           !.processed = Append(@, signature)]
        Frame(port_name, out_event) ==
            [node |-> node.id, event |-> out_event,
             pending |-> ConnectionsFrom(conns, node.id, port_name)]
    IN  IF AlreadyVisited(signature, st.visited)
        THEN [st EXCEPT !.skipped = Append(@, signature)]
        ELSE IF node.type = "midi.input"
        THEN [seen EXCEPT !.stack = Append(@, Frame("message", ev))]
        ELSE IF node.type = "logic.mapper"
        THEN IF MapperRaises(node.config, ev)
             THEN [seen EXCEPT !.escaped = TRUE]
             ELSE [seen EXCEPT !.stack = Append(@, Frame("out", ApplyMapper(node.config, ev)))]
        ELSE IF node.type \in ActionTypes
        THEN ProcessActionNode(node, ev, seen)
        ELSE seen

\* What handle_event returns for an empty graph, non-empty (mutant of EmptyResult).
EmptyResultNone == <<NULL>>

\* "return tuple()" of the empty-graph path.
EmptyResult == <<>>

\* The recursion limit of the interpreter, in frames: sys.getrecursionlimit() of
\* CPython, which the program never changes.
RecursionLimit == 1000

\* With depth nested _traverse_node calls in progress, one more overflows the
\* stack: each takes two frames (_traverse_node, _propagate_from_port), on top
\* of the frame of handle_event and below the frame of the call it makes itself.
\* The frames of the caller of handle_event, not counted, lower the depth reached.
StackOverflows(depth) == 2 * (depth + 1) + 2 > RecursionLimit

\* handle_event(event), up to its first loop: the early return for an empty graph,
\* and the locals of a new call.
HandleEvent(ev) ==
    /\ pc \in {"idle", "done", "raised"}
    /\ event' = ev
    /\ entry_values' = last_values
    /\ \E repeats \in {/\ pc = "done" /\ ev = event
                        /\ previous.nodes = nodes /\ previous.connections = connections} :
          previous' = [tracked |-> repeats,
                       processed |-> IF repeats THEN processed ELSE <<>>,
                       nodes |-> nodes, connections |-> connections]
    /\ dispatched' = FALSE
    /\ triggered' = <<>>
    /\ visited' = NewVisited(visited)
    /\ stack' = <<>>
    /\ processed' = <<>>
    /\ skipped' = <<>>
    /\ spawned' = <<>>
    /\ failed' = <<>>
    /\ adjusted' = <<>>
    /\ IF IsEmpty(nodes)
       THEN pc' = "done" /\ idx' = 0 /\ result' = EmptyResult
       ELSE pc' = "primary" /\ idx' = 1 /\ result' = <<>>
    /\ UNCHANGED <<last_values, volume_last_value, profiles>>
    /\ UNCHANGED <<graphVars, mapperVars, profileVars, actionVars, storeVars, workspaceVars,
                   shortcutVars, playerVars, scriptVars, threadVars>>

\* One iteration of a root loop over nodes().values(): the node is dispatched to
\* when it is a root of the loop and accepts the event.
RootIteration(is_root) ==
    LET node == nodes[idx]
        accepts == is_root /\ NodeAcceptsEvent(node, event,
                                   MatchingProfiles(profiles, event), profiles)
    IN  /\ idx' = idx + 1
        /\ \E accepted \in {accepts} :
              /\ dispatched' = (dispatched \/ accepted)
              /\ triggered' = IF accepted THEN Append(triggered, node.id) ELSE triggered
              /\ \E st \in {IF accepted
                             THEN TraverseNode(node, event, connections,
                                               [Here EXCEPT !.visited = SharedVisited(@)])
                             ELSE Here} : Becomes(st)
        /\ UNCHANGED <<event, result, entry_values, previous, profiles>>
        /\ UNCHANGED <<graphVars, mapperVars, profileVars, actionVars, storeVars,
                       workspaceVars, shortcutVars, playerVars, scriptVars, threadVars>>

\* The primary loop: the midi.input nodes.
PrimaryStep ==
    /\ pc = "primary" /\ stack = <<>> /\ idx <= Len(nodes)
    /\ RootIteration(nodes[idx].type = "midi.input")

\* "if not dispatched": the fallback loop begins.
StartFallback ==
    /\ pc = "primary" /\ stack = <<>> /\ idx > Len(nodes) /\ ~dispatched
    /\ pc' = "fallback"
    /\ idx' = 1
    /\ UNCHANGED <<event, dispatched, triggered, visited, stack, result, processed,
                   skipped, spawned, failed, adjusted,
                   volume_last_value, last_values, entry_values, previous, profiles>>
    /\ UNCHANGED <<graphVars, mapperVars, profileVars, actionVars, storeVars, workspaceVars,
                   shortcutVars, playerVars, scriptVars, threadVars>>

\* The fallback loop: the nodes without incoming connections.
FallbackStep ==
    /\ pc = "fallback" /\ stack = <<>> /\ idx <= Len(nodes)
    /\ RootIteration(~HasIncoming(connections, nodes[idx].id))

\* "return tuple(triggered_inputs)"
Return ==
    /\ pc \in {"primary", "fallback"} /\ stack = <<>> /\ idx > Len(nodes)
    /\ pc = "primary" => dispatched
    /\ pc' = "done"
    /\ result' = triggered
    /\ UNCHANGED <<event, idx, dispatched, triggered, visited, stack, processed,
                   skipped, spawned, failed, adjusted,
                   volume_last_value, last_values, entry_values, previous, profiles>>
    /\ UNCHANGED <<graphVars, mapperVars, profileVars, actionVars, storeVars, workspaceVars,
                   shortcutVars, playerVars, scriptVars, threadVars>>

\* The connection the innermost frame follows next, the node it leads to and
\* whether that node is traversed: it exists and accepts the event of the frame.
NextTarget ==
    GetNode(nodes, Head(stack[Len(stack)].pending).target_node)

TargetAccepted ==
    /\ NextTarget # NoNode
    /\ NodeAcceptsEvent(NextTarget, stack[Len(stack)].event,
                        MatchingProfiles(profiles, event), profiles)

\* The traversal of the next target cannot be nested: it is to be processed, and
\* the interpreter has no frames left for it.
OutOfFrames ==
    /\ TargetAccepted
    /\ ~AlreadyVisited(Signature(NextTarget, stack[Len(stack)].event), visited)
    /\ StackOverflows(Len(stack))

\* One iteration of the loop of _propagate_from_port in the innermost frame.
PropagateStep ==
    /\ stack # <<>>
    /\ stack[Len(stack)].pending # <<>>
    /\ ~OutOfFrames
    /\ LET top == stack[Len(stack)]
           rest == [Here EXCEPT !.stack[Len(stack)].pending = Tail(@)]
       IN  \E st \in {IF TargetAccepted
                       THEN TraverseNode(NextTarget, top.event, connections, rest)
                       ELSE rest} : Becomes(st)
    /\ UNCHANGED <<event, idx, dispatched, triggered, result, entry_values, previous, profiles>>
    /\ UNCHANGED <<graphVars, mapperVars, profileVars, actionVars, storeVars, workspaceVars,
                   shortcutVars, playerVars, scriptVars, threadVars>>

\* The recursive call of _traverse_node raises RecursionError: no frame of the
\* traversal catches it, and handle_event ends without returning.
RecursionOverflow ==
    /\ stack # <<>>
    /\ stack[Len(stack)].pending # <<>>
    /\ OutOfFrames
    /\ pc' = "raised"
    /\ stack' = <<>>
    /\ UNCHANGED <<event, idx, dispatched, triggered, visited, result, processed,
                   skipped, spawned, failed, adjusted,
                   volume_last_value, last_values, entry_values, previous, profiles>>
    /\ UNCHANGED <<graphVars, mapperVars, profileVars, actionVars, storeVars, workspaceVars,
                   shortcutVars, playerVars, scriptVars, threadVars>>

\* The loop of the innermost frame is over: _propagate_from_port and the
\* _traverse_node that called it return.
PropagateReturn ==
    /\ stack # <<>>
    /\ stack[Len(stack)].pending = <<>>
    /\ stack' = SubSeq(stack, 1, Len(stack) - 1)
    /\ UNCHANGED <<pc, event, idx, dispatched, triggered, visited, result, processed,
                   skipped, spawned, failed, adjusted,
                   volume_last_value, last_values, entry_values, previous, profiles>>
    /\ UNCHANGED <<graphVars, mapperVars, profileVars, actionVars, storeVars, workspaceVars,
                   shortcutVars, playerVars, scriptVars, threadVars>>

-----------------------------------------------------------------------------
(* SpecEngine: handle_event called again and again on every graph of up to   *)
(* three nodes, the graph being cleared at any moment between two calls.     *)

EngineIds == <<"n1", "n2", "n3">>
Kinds == {"input", "guarded", "mapper", "command"}

\* A MIDI input bound to the device on portB.
GuardedConfig == [position |-> <<0, 0>>, device_ports |-> <<"portB">>]

\* A mapper whose output differs from its input: v -> min(max(v, 0), 2) + 1.
IncConfig ==
    [position |-> <<0, 0>>, input_min |-> 0, input_max |-> 2,
     output_min |-> 1, output_max |-> 3, curve |-> "linear"]

\* The same over a range of values as wide as half the recursion limit.
WideConfig ==
    [position |-> <<0, 0>>, input_min |-> 0, input_max |-> RecursionLimit \div 2,
     output_min |-> 1, output_max |-> RecursionLimit \div 2 + 1, curve |-> "linear"]

\* A MIDI input bound to the control profile "p1".
BoundConfig == [position |-> <<0, 0>>, profile_id |-> "p1"]

\* The mapper of IncConfig, bound to the control profile "p1".
ProfiledConfig ==
    [position |-> <<0, 0>>, input_min |-> 0, input_max |-> 2,
     output_min |-> 1, output_max |-> 3, curve |-> "linear", profile_id |-> "p1"]

\* The mapper of IncConfig with an input_min that is no number.
BadMapperConfig ==
    [position |-> <<0, 0>>, input_min |-> Invalid, input_max |-> 2,
     output_min |-> 1, output_max |-> 3, curve |-> "linear"]

\* A volume node over the values 0..2, and one with an input_max that is no number.
VolumeConfig ==
    [position |-> <<0, 0>>, input_min |-> 0, input_max |-> 2,
     output_min |-> 0, output_max |-> 1]

BadVolumeConfig ==
    [position |-> <<0, 0>>, input_min |-> 0, input_max |-> Invalid,
     output_min |-> 0, output_max |-> 1]

\* The configs of mapper_1 and volume_action of the default preset
\* (app/storage/presets.py).
BrushMapperConfig ==
    [position |-> <<0, 0>>, input_min |-> 0, input_max |-> 127,
     output_min |-> 0, output_max |-> 100, curve |-> "linear"]

SystemVolumeConfig ==
    [position |-> <<0, 0>>, input_min |-> 0, input_max |-> 127,
     output_min |-> 0, output_max |-> 1]

CommandConfig == [position |-> <<0, 0>>, command |-> "run", shell |-> FALSE, cwd |-> ""]

\* A node built directly, with one input port per other node, named after it.
EngineNode(i, kind) ==
    LET Others(j) == j # EngineIds[i]
        InPort(j) == NodePort(j, "INPUT", "midi")
        ins == [p \in 1..(Len(EngineIds) - 1) |-> InPort(SelectSeq(EngineIds, Others)[p])]
    IN  IF kind = "input"
        THEN Node(EngineIds[i], "midi.input", "MIDI Input", ins,
                  <<NodePort("message", "OUTPUT", "midi")>>, NoConfig)
        ELSE IF kind = "guarded"
        THEN Node(EngineIds[i], "midi.input", "MIDI Input", ins,
                  <<NodePort("message", "OUTPUT", "midi")>>, GuardedConfig)
        ELSE IF kind = "bound"
        THEN Node(EngineIds[i], "midi.input", "MIDI Input", ins,
                  <<NodePort("message", "OUTPUT", "midi")>>, BoundConfig)
        ELSE IF kind = "profiled"
        THEN Node(EngineIds[i], "logic.mapper", "Value Mapper", ins,
                  <<NodePort("out", "OUTPUT", "midi")>>, ProfiledConfig)
        ELSE IF kind = "mapper"
        THEN Node(EngineIds[i], "logic.mapper", "Value Mapper", ins,
                  <<NodePort("out", "OUTPUT", "midi")>>, IncConfig)
        ELSE IF kind = "badmapper"
        THEN Node(EngineIds[i], "logic.mapper", "Value Mapper", ins,
                  <<NodePort("out", "OUTPUT", "midi")>>, BadMapperConfig)
        ELSE IF kind = "sparse"
        THEN Node(EngineIds[i], "logic.mapper", "Value Mapper", ins,
                  <<NodePort("out", "OUTPUT", "midi")>>, NoConfig)
        ELSE IF kind = "volume"
        THEN Node(EngineIds[i], "action.volume", "System Volume", ins, <<>>, VolumeConfig)
        ELSE IF kind = "badvolume"
        THEN Node(EngineIds[i], "action.volume", "System Volume", ins, <<>>, BadVolumeConfig)
        ELSE IF kind = "brush"
        THEN Node(EngineIds[i], "logic.mapper", "Brush Mapper", ins,
                  <<NodePort("out", "OUTPUT", "midi")>>, BrushMapperConfig)
        ELSE IF kind = "sysvolume"
        THEN Node(EngineIds[i], "action.volume", "System Volume", ins, <<>>,
                  SystemVolumeConfig)
        ELSE IF kind = "wide"
        THEN Node(EngineIds[i], "logic.mapper", "Value Mapper", ins,
                  <<NodePort("out", "OUTPUT", "midi")>>, WideConfig)
        ELSE Node(EngineIds[i], "action.command", "Command Runner", ins, <<>>, CommandConfig)

\* The ordered pairs <<source, target>> of node positions.
Pairs == <<<<1, 2>>, <<2, 1>>, <<1, 3>>, <<3, 1>>, <<2, 3>>, <<3, 2>>>>

\* The connection of a pair: from the output port of the source to the input
\* port of the target that is named after the source.
PairEdge(ns, pair) ==
    NodeConnection(ns[pair[1]].id, ns[pair[1]].outputs[1].name, ns[pair[2]].id, ns[pair[1]].id)

NoteOn(note, velocity, source) ==
    MidiEvent("note_on", 0, None, None, note, velocity, source, <<>>)

EngineEvents == {ControlChange(0, "portA"), ControlChange(2, "portB"), NoteOn(60, 64, "portA")}

\* The graph of the nodes of the given kinds, connected along the chosen pairs.
IsGraph(kinds, chosen) ==
    LET ns == [i \in DOMAIN kinds |-> EngineNode(i, kinds[i])]
        Chosen(i) == i \in chosen
        picks == SelectSeq([i \in DOMAIN Pairs |-> i], Chosen)
    IN  /\ nodes = ns
        /\ connections = [p \in DOMAIN picks |-> PairEdge(ns, Pairs[picks[p]])]

\* An input feeding two wide mappers wired in a loop: n1 -> n2 -> n3 -> n2.
DeepKinds == <<"input", "wide", "wide">>
DeepPairs == {1, 5, 6}

InitEngine ==
    /\ ThreadsIdle
    /\ EngineIdle /\ MapperIdle /\ ProfileIdle /\ ActionIdle /\ StoreIdle /\ WorkspaceIdle
    /\ ShortcutIdle /\ PlayerIdle /\ ScriptIdle
    /\ call = NoCall
    /\ \/ \E k \in 0..Len(EngineIds) : \E kinds \in [1..k -> Kinds] :
            \E chosen \in SUBSET {i \in DOMAIN Pairs :
                                     /\ Pairs[i][1] <= k /\ Pairs[i][2] <= k
                                     /\ kinds[Pairs[i][1]] # "command"} :
               IsGraph(kinds, chosen)
       \/ IsGraph(DeepKinds, DeepPairs)

\* Running: the steps of a handle_event call in progress.
Run ==
    \/ PrimaryStep
    \/ StartFallback
    \/ FallbackStep
    \/ Return
    \/ PropagateStep
    \/ RecursionOverflow
    \/ PropagateReturn

NextEngine ==
    \/ \E ev \in EngineEvents : HandleEvent(ev)
    \/ Run
    \/ (pc \in {"idle", "done", "raised"} /\ Clear)

SpecEngine == InitEngine /\ [][NextEngine]_vars

\* handle_event is synchronous code: once called, it keeps taking steps.
SpecEngineFair == SpecEngine /\ WF_vars(Run)

-----------------------------------------------------------------------------
(* SpecEngineProfiles: handle_event on graphs whose second node is bound to *)
(* a control profile or to a device, behind an input that is bound to a     *)
(* device or to none, with a profile store that holds the profile, holds it *)
(* for another device, holds another one, or is empty.                      *)

\* Control 7 of channel 0 as learned from the device on a port.
Knob(id, device_port) ==
    ControlProfile(id, "Knob", device_port, "control_change", "continuous", 0, 7, None, <<>>)

ProfileStores ==
    { <<>>, <<Knob("p1", "portA")>>, <<Knob("p1", "portB")>>,
      <<Knob("p2", "portA")>>, <<Knob("p2", "portA"), Knob("p1", "portA")>> }

ProfileKinds ==
    { kinds \in [1..3 -> {"input", "bound", "profiled", "guarded", "mapper", "command"}] :
        /\ kinds[1] \in {"input", "guarded"}
        /\ kinds[2] \in {"bound", "profiled", "guarded"}
        /\ kinds[3] \in {"mapper", "command"} }

InitEngineProfiles ==
    /\ ThreadsIdle
    /\ MapperIdle /\ ProfileIdle /\ ActionIdle /\ StoreIdle /\ WorkspaceIdle
    /\ ShortcutIdle /\ PlayerIdle /\ ScriptIdle
    /\ call = NoCall
    /\ pc = "idle" /\ event = NoEvent /\ idx = 0 /\ dispatched = FALSE
    /\ triggered = <<>> /\ visited = {} /\ stack = <<>> /\ result = <<>>
    /\ processed = <<>> /\ skipped = <<>> /\ spawned = <<>>
    /\ failed = <<>> /\ adjusted = <<>> /\ volume_last_value = None
    /\ last_values = NoValues /\ entry_values = NoValues /\ previous = Untracked
    /\ \/ /\ profiles \in ProfileStores
          /\ \E kinds \in ProfileKinds :
                \E chosen \in SUBSET {i \in DOMAIN Pairs : kinds[Pairs[i][1]] # "command"} :
                   IsGraph(kinds, chosen)
       \/ /\ profiles = <<>>
          /\ IsGraph(DeepKinds, DeepPairs)

SpecEngineProfiles == InitEngineProfiles /\ [][NextEngine]_vars

-----------------------------------------------------------------------------
(* SpecEngineErrors: handle_event on graphs with a Volume action or a       *)
(* mapper whose config holds a value that is no number, or lacks its keys.  *)

ErrorKinds ==
    { kinds \in [1..3 -> {"input", "guarded", "mapper", "badmapper", "sparse",
                          "volume", "badvolume", "command"}] :
        /\ kinds[1] \in {"input", "guarded"}
        /\ kinds[2] \in {"badvolume", "volume", "badmapper", "sparse"}
        /\ kinds[3] \in {"input", "mapper", "command"} }

InitEngineErrors ==
    /\ ThreadsIdle
    /\ EngineIdle /\ MapperIdle /\ ProfileIdle /\ ActionIdle /\ StoreIdle /\ WorkspaceIdle
    /\ ShortcutIdle /\ PlayerIdle /\ ScriptIdle
    /\ call = NoCall
    /\ \/ \E kinds \in ErrorKinds :
            \E chosen \in SUBSET {i \in DOMAIN Pairs :
                                     kinds[Pairs[i][1]] \notin {"command", "volume", "badvolume"}} :
               IsGraph(kinds, chosen)
       \/ IsGraph(DeepKinds, DeepPairs)

SpecEngineErrors == InitEngineErrors /\ [][NextEngine]_vars

-----------------------------------------------------------------------------
(* SpecScenario: handle_event on the chain of the default preset, a          *)
(* midi.input wired to the mapper 0-127 -> 0-100 wired to the Volume action  *)
(* 0-127 -> 0.0-1.0, with control_change events of control 7 over the whole  *)
(* MIDI range. The input accepts every device or the one on portB only.      *)

ScenarioValues == {0, 1, 64, 100, 126, 127}

ScenarioEvents ==
    {ControlChange(v, "portA") : v \in ScenarioValues} \cup {ControlChange(127, "portB")}

InitScenario ==
    /\ ThreadsIdle
    /\ EngineIdle /\ MapperIdle /\ ProfileIdle /\ ActionIdle /\ StoreIdle /\ WorkspaceIdle
    /\ ShortcutIdle /\ PlayerIdle /\ ScriptIdle
    /\ call = NoCall
    /\ \/ \E first \in {"input", "guarded"} : IsGraph(<<first, "brush", "sysvolume">>, {1, 5})
       \/ IsGraph(DeepKinds, DeepPairs)

NextScenario ==
    \/ \E ev \in ScenarioEvents : HandleEvent(ev)
    \/ Run

SpecScenario == InitScenario /\ [][NextScenario]_vars

-----------------------------------------------------------------------------
(* SpecBuiltin: graphs edited through add_node and connect with nodes      *)
(* instantiated from the builtin templates only, and handle_event called   *)
(* on them between the edits.                                              *)

\* The nodes add_node is called with: an input, a mapper whose config was
\* edited to change the value, and under the id n3 a mapper or a Command node
\* as the templates make them.
BuiltinNodes(node_id) ==
    CASE node_id = "n1" -> {Instantiate(Templates["midi.input"], node_id)}
      [] node_id = "n2" ->
           {[Instantiate(Templates["logic.mapper"], node_id) EXCEPT !.config = IncConfig]}
      [] OTHER -> {Instantiate(Templates["logic.mapper"], node_id),
                   Instantiate(Templates["action.command"], node_id)}

\* The connect calls: from the output port of a node to an input port of
\* another one.
BuiltinEdges ==
    { NodeConnection(source[1], source[2], target[1], target[2]) :
        source \in {<<"n1", "message">>, <<"n2", "out">>, <<"n3", "out">>},
        target \in {<<"n2", "in">>, <<"n3", "in">>, <<"n3", "trigger">>} }

\* Value 0 reaches a node as 0 and, through the mapper n2, as 1.
BuiltinEvents == {ControlChange(0, "portA")}

InitBuiltin ==
    /\ ThreadsIdle
    /\ EngineIdle /\ MapperIdle /\ ProfileIdle /\ ActionIdle /\ StoreIdle /\ WorkspaceIdle
    /\ ShortcutIdle /\ PlayerIdle /\ ScriptIdle
    /\ nodes = <<>>
    /\ connections = <<>>
    /\ call = NoCall

\* The steps of a call on these graphs. No traversal nests deeper than the
\* values 0..3 of the mappers allow, far from the recursion limit.
RunBuiltin ==
    \/ PrimaryStep
    \/ StartFallback
    \/ FallbackStep
    \/ Return
    \/ PropagateStep
    \/ PropagateReturn

\* The graph is edited between the calls of handle_event, not during one.
NextBuiltin ==
    \/ /\ pc \in {"idle", "done", "raised"}
       /\ \/ \E id \in NodeIds : \E node \in BuiltinNodes(id) : AddNode(node)
          \/ \E edge \in BuiltinEdges : Connect(edge)
    \/ \E ev \in BuiltinEvents : HandleEvent(ev)
    \/ RunBuiltin

SpecBuiltin == InitBuiltin /\ [][NextBuiltin]_vars

-----------------------------------------------------------------------------
(* SpecCommand: CommandAction.handle_event called again and again, on any   *)
(* of a few Command nodes, with events of every message type.               *)

\* note_off(note, velocity) on channel 0 from port source.
NoteOff(note, velocity, source) ==
    MidiEvent("note_off", 0, None, None, note, velocity, source, <<>>)

\* pitchwheel on channel 0: a message with neither control, value, note nor velocity.
PitchWheel(source) ==
    MidiEvent("pitchwheel", 0, None, None, None, None, source, <<>>)

\* control_change(control, value) on channel 0 from port source.
ControlChangeOf(control, v, source) ==
    MidiEvent("control_change", 0, control, v, None, None, source, <<>>)

\* The events MidiEvent.from_message builds from the messages of a controller.
ActionEvents ==
    {ControlChangeOf(control, v, "portA") : control \in {3, 7}, v \in {0, 2}}
        \cup {NoteOn(60, velocity, "portA") : velocity \in {0, 64}}
        \cup {NoteOff(60, 0, "portA"), PitchWheel("portA")}

\* An action node as the engine hands it to an action: its id, type and config.
ActionNode(id, type, config) ==
    [id |-> id, type |-> type, title |-> id, inputs |-> <<>>, outputs |-> <<>>, config |-> config]

CommandConfigs ==
    { CommandConfig,
      [command |-> "run", shell |-> TRUE],
      [args |-> <<"run", "now">>],
      [command |-> "", shell |-> TRUE],
      NoConfig }

CommandNodes == { ActionNode("n1", "action.command", config) : config \in CommandConfigs }

InitCommand ==
    /\ ThreadsIdle
    /\ GraphIdle /\ EngineIdle /\ MapperIdle /\ ProfileIdle /\ ActionIdle /\ StoreIdle
    /\ WorkspaceIdle /\ ShortcutIdle /\ PlayerIdle /\ ScriptIdle

\* CommandAction.handle_event(event, node, context)
CommandHandleEvent(ev, node) ==
    LET acted == CommandHandle(node.config, ev, last_values)
    IN  /\ a_node' = node
        /\ a_event' = ev
        /\ last_values' = acted.last_values
        /\ a_effects' = IF acted.spawn THEN <<"Popen">> ELSE <<>>
        /\ a_seen' = [a_seen EXCEPT ![node.id] = ev]
        /\ UNCHANGED <<graphVars, mapperVars, profileVars, storeVars, workspaceVars,
                       shortcutVars, playerVars, scriptVars, sound_last_values, threadVars>>
        /\ UNCHANGED <<pc, event, idx, dispatched, triggered, visited, stack, result,
                       processed, skipped, spawned, failed, adjusted,
                       volume_last_value, entry_values, previous, profiles>>

NextCommand == \E ev \in ActionEvents : \E node \in CommandNodes : CommandHandleEvent(ev, node)

SpecCommand == InitCommand /\ [][NextCommand]_vars

-----------------------------------------------------------------------------
(* ShortcutAction (app/actions/shortcut.py) and SpecShortcut: handle_event   *)
(* called again and again on any of a few Shortcut nodes, with the xdotool  *)
(* utility installed or not. A key sequence is a tuple of characters.       *)

Whitespace == {" ", "\t"}

RECURSIVE LStrip(_)
LStrip(text) ==
    IF text # <<>> /\ Head(text) \in Whitespace THEN LStrip(Tail(text)) ELSE text

RECURSIVE RStrip(_)
RStrip(text) ==
    IF text # <<>> /\ text[Len(text)] \in Whitespace
    THEN RStrip(SubSeq(text, 1, Len(text) - 1)) ELSE text

\* str.strip()
Strip(text) == RStrip(LStrip(text))

\* ShortcutAction.handle_event(event, node, context): the flag _warned it
\* leaves, the warning it logs (NULL for none), whether xdotool is run, and
\* the condition the event hit (NULL for none).
ShortcutHandle(config, ev, available, warned) ==
    LET velocity == IF ev.velocity # None THEN ev.velocity ELSE ev.value
        sequence == Strip(ConfigGet(config, "sequence", <<>>))
        Quiet    == [warned |-> warned, warning |-> NULL, run |-> FALSE, hit |-> NULL]
    IN  IF ev.message_type = "note_off" THEN Quiet
        ELSE IF ev.message_type = "note_on" /\ velocity # None /\ velocity <= 0 THEN Quiet
        ELSE IF ev.value # None /\ ev.value = 0 THEN Quiet
        ELSE IF sequence = <<>>
             THEN [warned |-> TRUE, warning |-> IF warned THEN NULL ELSE "no sequence",
                   run |-> FALSE, hit |-> "no sequence"]
        ELSE IF ~available
             THEN [warned |-> TRUE, warning |-> IF warned THEN NULL ELSE "no xdotool",
                   run |-> FALSE, hit |-> "no xdotool"]
        ELSE [Quiet EXCEPT !.run = TRUE]

ShortcutConfigs ==
    { [sequence |-> <<"c", "t", "r", "l", "+", "c">>],
      [sequence |-> <<" ", "F", "5", " ">>],
      [sequence |-> <<" ", "\t">>],
      [sequence |-> <<>>],
      NoConfig }

ShortcutNodes ==
    { ActionNode(id, "action.shortcut", config) : id \in {"n1", "n2"}, config \in ShortcutConfigs }

\* ShortcutAction.__init__: _available = shutil.which("xdotool") is not None
InitShortcut ==
    /\ ThreadsIdle
    /\ GraphIdle /\ EngineIdle /\ MapperIdle /\ ProfileIdle /\ ActionIdle /\ StoreIdle
    /\ WorkspaceIdle /\ PlayerIdle /\ ScriptIdle
    /\ shortcut_available \in BOOLEAN
    /\ shortcut_warned = FALSE
    /\ shortcut_log = <<>>
    /\ shortcut_hits = {}

\* ShortcutAction.handle_event(event, node, context)
ShortcutHandleEvent(ev, node) ==
    LET acted == ShortcutHandle(node.config, ev, shortcut_available, shortcut_warned)
    IN  /\ a_node' = node
        /\ a_event' = ev
        /\ a_effects' = IF acted.run THEN <<"run">> ELSE <<>>
        /\ a_seen' = [a_seen EXCEPT ![node.id] = ev]
        /\ shortcut_warned' = acted.warned
        /\ shortcut_log' = IF acted.warning # NULL THEN Append(shortcut_log, acted.warning)
                           ELSE shortcut_log
        /\ shortcut_hits' = IF acted.hit # NULL THEN shortcut_hits \cup {acted.hit}
                            ELSE shortcut_hits
        /\ UNCHANGED <<shortcut_available, sound_last_values>>
        /\ UNCHANGED <<graphVars, engineVars, mapperVars, profileVars, storeVars, workspaceVars,
                       playerVars, scriptVars, threadVars>>

NextShortcut == \E ev \in ActionEvents : \E node \in ShortcutNodes : ShortcutHandleEvent(ev, node)

SpecShortcut == InitShortcut /\ [][NextShortcut]_vars

-----------------------------------------------------------------------------
(* ScriptAction (app/actions/script.py) and SpecScript: handle_event called  *)
(* on Script nodes, the snippet being any sequence of the operations the     *)
(* evaluation context allows: calling a built-in it can name, reading an     *)
(* attribute of an object it holds, calling a function it holds.             *)

\* The names of SAFE_BUILTINS.
SAFE_BUILTINS ==
    {"abs", "min", "max", "round", "int", "float", "str", "print", "bool", "len", "list",
     "dict", "set", "sorted", "getattr", "__import__"}

\* globals_dict: the names the snippet starts with.
ScriptGlobals == {"event", "node", "context"} \cup SAFE_BUILTINS

\* Modules of the interpreter that __import__(name) returns.
Modules == {"os", "subprocess", "builtins", "math"}

\* The attributes followed on each module.
Attributes(object) ==
    CASE object = "os"         -> {"os.system", "os.remove"}
      [] object = "subprocess" -> {"subprocess.run"}
      [] object = "builtins"   -> {"open"}
      [] object = "math"       -> {"math.sqrt"}
      [] OTHER                 -> {}

\* The access a call of the function gives (NULL for none).
Access(function) ==
    CASE function \in {"os.system", "subprocess.run"} -> "process"
      [] function \in {"os.remove", "open"}           -> "file"
      [] OTHER                                        -> NULL

ScriptConfigs == { [script |-> "run"], [script |-> "  "], [script |-> ""], NoConfig }

ScriptNodes == { ActionNode("n1", "action.script", config) : config \in ScriptConfigs }

\* isinstance(script, str) and script.strip(), for the scripts of ScriptConfigs
HasScript(config) == ConfigGet(config, "script", "") \notin {"", "  "}

InitScript ==
    /\ ThreadsIdle
    /\ GraphIdle /\ EngineIdle /\ MapperIdle /\ ProfileIdle /\ ActionIdle /\ StoreIdle
    /\ WorkspaceIdle /\ ShortcutIdle /\ PlayerIdle /\ ScriptIdle

\* ScriptAction.handle_event(event, node, context), up to the call of exec: a
\* node without a script returns at once.
ScriptHandleEvent(ev, node) ==
    /\ script_pc = "idle"
    /\ a_node' = node
    /\ a_event' = ev
    /\ a_effects' = <<>>
    /\ a_seen' = [a_seen EXCEPT ![node.id] = ev]
    /\ script_pc' = IF HasScript(node.config) THEN "exec" ELSE "idle"
    /\ script_held' = IF HasScript(node.config) THEN ScriptGlobals ELSE {}
    /\ UNCHANGED <<script_access, sound_last_values>>
    /\ UNCHANGED <<graphVars, engineVars, mapperVars, profileVars, storeVars, workspaceVars,
                   shortcutVars, playerVars, threadVars>>

ScriptUnchanged ==
    UNCHANGED <<graphVars, engineVars, mapperVars, profileVars, actionVars, storeVars,
                workspaceVars, shortcutVars, playerVars, threadVars>>

\* The snippet calls __import__(name): the name __import__ is looked up in
\* __builtins__.
ScriptImport(module) ==
    /\ script_pc = "exec"
    /\ "__import__" \in script_held
    /\ script_held' = script_held \cup {module}
    /\ UNCHANGED <<script_pc, script_access>>
    /\ ScriptUnchanged

\* The snippet reads an attribute of an object it holds (object.attribute, or
\* getattr(object, name)).
ScriptAttribute(object, attribute) ==
    /\ script_pc = "exec"
    /\ object \in script_held
    /\ attribute \in Attributes(object)
    /\ script_held' = script_held \cup {attribute}
    /\ UNCHANGED <<script_pc, script_access>>
    /\ ScriptUnchanged

\* The snippet calls a function it holds.
ScriptCall(function) ==
    /\ script_pc = "exec"
    /\ function \in script_held
    /\ Access(function) # NULL
    /\ script_access' = script_access \cup {Access(function)}
    /\ UNCHANGED <<script_pc, script_held>>
    /\ ScriptUnchanged

\* exec returns, or raises and the exception is logged.
ScriptReturn ==
    /\ script_pc = "exec"
    /\ script_pc' = "idle"
    /\ script_held' = {}
    /\ UNCHANGED script_access
    /\ ScriptUnchanged

Functions == UNION {Attributes(module) : module \in Modules}

NextScript ==
    \/ \E ev \in ActionEvents : \E node \in ScriptNodes : ScriptHandleEvent(ev, node)
    \/ \E module \in Modules : ScriptImport(module)
    \/ \E module \in Modules : \E attribute \in Functions : ScriptAttribute(module, attribute)
    \/ \E function \in Functions : ScriptCall(function)
    \/ ScriptReturn

SpecScript == InitScript /\ [][NextScript]_vars

-----------------------------------------------------------------------------
(* SpecWorkspace: MIDI events shown on the input nodes of a graph           *)
(* (app/ui/main_window.py) and the graph exported                           *)
(* (app/storage/workspace_store.py), in any order. The graph is two         *)
(* unconnected midi.input nodes, one of them bound to the device on portB.  *)

\* |a - b| > 1e-3 for rationals a, b.
DiffersVisibly(a, b) ==
    LET diff == a[1] * b[2] - b[1] * a[2]
    IN  (IF diff < 0 THEN -diff ELSE diff) * 1000 > a[2] * b[2]

\* No display: _extract_event_display returns None.
NoDisplay == [value |-> <<0, 1>>, active |-> FALSE, raw |-> None, shown |-> FALSE]

\* _extract_event_display(event): the normalized value, the activity and the
\* raw value of the event.
ExtractEventDisplay(ev) ==
    LET velocity  == IF ev.velocity # None THEN ev.velocity
                     ELSE IF ev.value # None THEN ev.value
                     ELSE IF ev.message_type = "note_on" THEN 127 ELSE 0
        raw_value == Max(0, Min(127, velocity))
        scaled    == IF ev.message_type = "pitchwheel" THEN <<ev.value + 8192, 16383>>
                     ELSE <<ev.value, 127>>
        clamped   == IF scaled[1] < 0 THEN <<0, 1>>
                     ELSE IF scaled[1] > scaled[2] THEN <<1, 1>> ELSE scaled
    IN  IF ev.message_type \in {"note_on", "note_off"}
        THEN [value |-> IF raw_value # 0 THEN <<raw_value, 127>> ELSE <<0, 1>>,
              active |-> ev.message_type # "note_off" /\ raw_value > 0,
              raw |-> raw_value, shown |-> TRUE]
        ELSE IF ev.value = None THEN NoDisplay
        ELSE [value |-> clamped, active |-> clamped[1] * 1000 > clamped[2],
              raw |-> ev.value, shown |-> TRUE]

\* config[key] = value on a dict.
ConfigPut(config, key, value) ==
    [k \in DOMAIN config \cup {key} |-> IF k = key THEN value ELSE config[k]]

\* The body of the loop of _update_midi_input_visuals on the config of a node.
UpdateVisuals(config, display) ==
    LET with_value ==
            IF \/ "_display_last_value" \notin DOMAIN config
               \/ DiffersVisibly(config["_display_last_value"], display.value)
            THEN ConfigPut(config, "_display_last_value", display.value)
            ELSE config
        with_active ==
            IF ConfigGet(with_value, "_display_last_active", FALSE) # display.active
            THEN ConfigPut(with_value, "_display_last_active", display.active)
            ELSE with_value
    IN  IF display.raw # None
        THEN ConfigPut(with_active, "_display_last_raw", display.raw)
        ELSE Without(with_active, {"_display_last_raw"})

\* node_position(node_id) or (0.0, 0.0)
NodePosition(node) == ConfigGet(node.config, "position", <<0, 0>>)

\* "config": node.config
ExportedConfig(config) == config

\* export_graph(graph), for a graph without groups.
ExportGraph(ns, conns) ==
    [version |-> 1,
     nodes |-> [i \in DOMAIN ns |->
                  [id |-> ns[i].id, type |-> ns[i].type, title |-> ns[i].title,
                   config |-> ExportedConfig(ns[i].config), position |-> NodePosition(ns[i])]],
     connections |-> conns]

WorkspaceEvents ==
    {ControlChangeOf(7, v, port) : v \in {0, 2}, port \in {"portA", "portB"}}
        \cup {NoteOn(60, 64, "portA"), NoteOff(60, 0, "portB"), PitchWheel("portA")}

InitWorkspace ==
    /\ ThreadsIdle
    /\ EngineIdle /\ MapperIdle /\ ProfileIdle /\ ActionIdle /\ StoreIdle /\ WorkspaceIdle
    /\ ShortcutIdle /\ PlayerIdle /\ ScriptIdle
    /\ call = NoCall
    /\ IsGraph(<<"input", "guarded">>, {})

\* The MIDI event handler of the main window, on a graph of unconnected
\* midi.input nodes: handle_event returns the inputs that accept the event, in
\* graph order, having traversed each of them, and _update_midi_input_visuals
\* writes the display of the event into their configs.
OnMidiEvent(ev) ==
    LET Accepts(node) == NodeAcceptsEvent(node, ev, MatchingProfiles(profiles, ev), profiles)
        triggered_inputs == SelectSeq(nodes, Accepts)
        display == ExtractEventDisplay(ev)
        Shown(node) == \E i \in DOMAIN triggered_inputs : triggered_inputs[i].id = node.id
    IN  /\ pc \in {"idle", "done"}
        /\ \A i \in DOMAIN nodes : nodes[i].type = "midi.input"
        /\ connections = <<>>
        /\ pc' = "done"
        /\ event' = ev
        /\ idx' = Len(nodes) + 1
        /\ dispatched' = (triggered_inputs # <<>>)
        /\ triggered' = [i \in DOMAIN triggered_inputs |-> triggered_inputs[i].id]
        /\ result' = triggered'
        /\ processed' = [i \in DOMAIN triggered_inputs |-> Signature(triggered_inputs[i], ev)]
        /\ visited' = {Signature(triggered_inputs[i], ev) : i \in DOMAIN triggered_inputs}
        /\ nodes' = [i \in DOMAIN nodes |->
                        IF display.shown /\ Shown(nodes[i])
                        THEN [nodes[i] EXCEPT !.config = UpdateVisuals(@, display)]
                        ELSE nodes[i]]
        /\ UNCHANGED <<stack, skipped, spawned, failed, adjusted, volume_last_value,
                       last_values, entry_values, previous, profiles>>
        /\ UNCHANGED <<connections, call, exported>>
        /\ UNCHANGED <<mapperVars, profileVars, actionVars, storeVars, shortcutVars, playerVars,
                       scriptVars, threadVars>>

\* export_graph(graph)
ExportGraphCall ==
    /\ exported' = ExportGraph(nodes, connections)
    /\ UNCHANGED <<graphVars, engineVars, mapperVars, profileVars, actionVars, storeVars,
                   shortcutVars, playerVars, scriptVars, threadVars>>

NextWorkspace ==
    \/ \E ev \in WorkspaceEvents : OnMidiEvent(ev)
    \/ ExportGraphCall

SpecWorkspace == InitWorkspace /\ [][NextWorkspace]_vars

-----------------------------------------------------------------------------
(* SoundAction (app/actions/sound.py) and SpecSound: handle_event called    *)
(* again and again on any of three Sound nodes whose file, if configured,   *)
(* exists.                                                                  *)

\* The audio files that exist on disk.
ExistingFiles == {"ok.wav"}

\* The warnings of the Sound action: what is logged and the file it is about.
NoWarning == [warning |-> NULL, file |-> NULL]

\* "SoundAction audio file %s does not exist"
MissingFile(path) == [warning |-> "missing file", file |-> path]

\* "Sound playback requested but no supported audio backend was detected."
MissingBackend == [warning |-> "missing backend", file |-> NULL]

\* The longest log of warnings followed.
MaxLog == 3

\* _safe_int(node.config.get(key)) for a key that is absent or holds an int.
SafeInt(config, key) == ConfigGet(config, key, None)

\* _should_trigger(event, node): the _last_values it leaves and its verdict.
ShouldTrigger(config, ev, lv) ==
    LET trigger_value == SafeInt(config, "trigger_value")
        min_value     == SafeInt(config, "min_value")
        control       == IF ev.control # None THEN ev.control ELSE -1
        stored        == IF ev.value # None THEN [lv EXCEPT ![control] = ev.value] ELSE lv
        value         == IF ev.value # None THEN ev.value ELSE 0
        velocity      == IF ev.velocity # None THEN ev.velocity ELSE 0
        Passes(level) == /\ ~(trigger_value # None /\ level # trigger_value)
                         /\ ~(min_value # None /\ level < min_value)
    IN  IF ev.message_type = "control_change"
        THEN IF lv[control] = ev.value THEN [last_values |-> lv, trigger |-> FALSE]
             ELSE [last_values |-> stored, trigger |-> Passes(value)]
        ELSE IF ev.message_type = "note_on"
        THEN [last_values |-> lv, trigger |-> velocity > 0 /\ Passes(velocity)]
        ELSE IF ev.message_type = "note_off"
        THEN [last_values |-> lv, trigger |-> ConfigGet(config, "trigger_on_note_off", FALSE)]
        ELSE [last_values |-> lv, trigger |-> FALSE]

\* node.config.get("file") or node.config.get("path") ("" for none)
PathConfig(config) ==
    LET file == ConfigGet(config, "file", "")
    IN  IF file # "" THEN file ELSE ConfigGet(config, "path", "")

\* handle_event(event, node, context): the _last_values it leaves, whether it
\* reaches self._player.play, and the warning it logs itself (NoWarning for
\* none).
SoundHandle(config, ev, lv) ==
    LET path_config == PathConfig(config)
        decided     == ShouldTrigger(config, ev, lv)
    IN  IF path_config = ""
        THEN [last_values |-> lv, play |-> FALSE, warning |-> NoWarning]
        ELSE IF path_config \notin ExistingFiles
        THEN [last_values |-> lv, play |-> FALSE, warning |-> MissingFile(path_config)]
        ELSE [last_values |-> decided.last_values, play |-> decided.trigger,
              warning |-> NoWarning]

\* _SoundPlayer.play(file_path, volume): the flag _warned_missing_backend it
\* leaves, its warning, and whether it spawns the player.
Play(backend, warned) ==
    IF backend = NULL
    THEN [warned |-> TRUE, warning |-> IF warned THEN NoWarning ELSE MissingBackend,
          spawn |-> FALSE]
    ELSE [warned |-> warned, warning |-> NoWarning, spawn |-> TRUE]

PlainSound == [position |-> <<0, 0>>, file |-> "ok.wav", volume |-> 1]

SoundNodes ==
    { ActionNode("n1", "action.sound", PlainSound),
      ActionNode("n2", "action.sound", [path |-> "ok.wav"]),
      ActionNode("n3", "action.sound", [file |-> "ok.wav", min_value |-> 2]),
      ActionNode("n3", "action.sound", [file |-> "ok.wav", trigger_value |-> 0,
                                        trigger_on_note_off |-> TRUE]),
      ActionNode("n3", "action.sound", NoConfig) }

\* SoundAction.__init__ and _SoundPlayer.__init__ on a machine with ffplay.
InitSound ==
    /\ ThreadsIdle
    /\ GraphIdle /\ EngineIdle /\ MapperIdle /\ ProfileIdle /\ ActionIdle /\ StoreIdle
    /\ WorkspaceIdle /\ ShortcutIdle /\ ScriptIdle
    /\ sound_backend = "ffplay"
    /\ sound_warned_missing_backend = FALSE
    /\ sound_log = <<>>

\* SoundAction.handle_event(event, node, context)
SoundHandleEvent(ev, node) ==
    LET acted  == SoundHandle(node.config, ev, sound_last_values)
        played == Play(sound_backend, sound_warned_missing_backend)
        logged == IF acted.play THEN played.warning ELSE acted.warning
    IN  /\ a_node' = node
        /\ a_event' = ev
        /\ sound_last_values' = acted.last_values
        /\ a_effects' = IF acted.play THEN <<"play">> ELSE <<>>
        /\ a_seen' = [a_seen EXCEPT ![node.id] = ev]
        /\ sound_warned_missing_backend' =
               IF acted.play THEN played.warned ELSE sound_warned_missing_backend
        /\ sound_log' = IF logged # NoWarning THEN Append(sound_log, logged) ELSE sound_log
        /\ Len(sound_log') <= MaxLog
        /\ UNCHANGED sound_backend
        /\ UNCHANGED <<graphVars, engineVars, mapperVars, profileVars, storeVars,
                       workspaceVars, shortcutVars, scriptVars, threadVars>>

NextSound == \E ev \in ActionEvents : \E node \in SoundNodes : SoundHandleEvent(ev, node)

SpecSound == InitSound /\ [][NextSound]_vars

(* SpecPlayer: handle_event called again and again on three Sound nodes, two *)
(* of them with a file that does not exist, on a machine with or without a  *)
(* playback backend.                                                         *)

PlayerNodes ==
    { ActionNode("n1", "action.sound", PlainSound),
      ActionNode("n2", "action.sound", [file |-> "gone.wav"]),
      ActionNode("n3", "action.sound", [path |-> "lost.wav"]) }

PlayerEvents ==
    {ControlChangeOf(7, v, "portA") : v \in {0, 2}} \cup {NoteOn(60, 64, "portA")}

\* SoundAction.__init__ and _SoundPlayer.__init__: the backend is the first
\* player found on the machine, if any.
InitPlayer ==
    /\ ThreadsIdle
    /\ GraphIdle /\ EngineIdle /\ MapperIdle /\ ProfileIdle /\ ActionIdle /\ StoreIdle
    /\ WorkspaceIdle /\ ShortcutIdle /\ ScriptIdle
    /\ sound_backend \in {NULL, "ffplay"}
    /\ sound_warned_missing_backend = FALSE
    /\ sound_log = <<>>

NextPlayer == \E ev \in PlayerEvents : \E node \in PlayerNodes : SoundHandleEvent(ev, node)

SpecPlayer == InitPlayer /\ [][NextPlayer]_vars

-----------------------------------------------------------------------------
(* ControlProfileStore.load (app/midi/profiles.py) and SpecStore: load      *)
(* applied to every list of up to MaxRecords records, on an empty store and *)
(* on one that holds a profile.                                             *)

\* The keys load reads with entry[key]: a record without one raises KeyError.
RequiredKeys == {"id", "name", "device_port", "message_type"}

\* Mutant of CoerceOptionalInt: every falsy value taken for None.
CoerceFalsyToNone(value) == IF value = 0 THEN None ELSE value

\* _coerce_optional_int(value) for None or an int.
CoerceOptionalInt(value) == value

\* The ControlProfile load builds from a record that has the required keys.
ProfileOf(entry) ==
    ControlProfile(entry.id, entry.name, entry.device_port, entry.message_type,
                   ConfigGet(entry, "control_type", ""),
                   CoerceOptionalInt(ConfigGet(entry, "channel", None)),
                   CoerceOptionalInt(ConfigGet(entry, "control", None)),
                   CoerceOptionalInt(ConfigGet(entry, "note", None)),
                   ConfigGet(entry, "aliases", <<>>))

\* self._profiles[profile.id] = profile on a dict kept in insertion order.
StorePut(store, profile) ==
    IF \E i \in DOMAIN store : store[i].id = profile.id
    THEN [i \in DOMAIN store |-> IF store[i].id = profile.id THEN profile ELSE store[i]]
    ELSE Append(store, profile)

\* The loop of load: a record that raises KeyError is passed over.
RECURSIVE LoadFrom(_, _)
LoadFrom(store, data) ==
    IF data = <<>> THEN store
    ELSE IF RequiredKeys \subseteq DOMAIN Head(data)
    THEN LoadFrom(StorePut(store, ProfileOf(Head(data))), Tail(data))
    ELSE LoadFrom(store, Tail(data))

\* Mutant of Load: the store is not cleared first.
LoadWithoutClear(store, data) == LoadFrom(store, data)

\* load(data): the store it leaves.
Load(store, data) == LoadFrom(<<>>, data)

MaxRecords == 3

FullRecord(id, name) ==
    [id |-> id, name |-> name, device_port |-> "portA", message_type |-> "control_change",
     control_type |-> "continuous", channel |-> 0, control |-> 7, note |-> None,
     aliases |-> <<"alias">>]

Records ==
    {FullRecord("a", "x"), FullRecord("a", "y"), FullRecord("b", "x")}
        \cup {Without(FullRecord("b", "y"), {"control_type", "channel", "control", "note", "aliases"})}
        \cup {Without(FullRecord("a", "x"), {key}) : key \in RequiredKeys}

RECURSIVE SeqsUpTo(_, _)
SeqsUpTo(S, n) ==
    IF n = 0 THEN {<<>>}
    ELSE LET shorter == SeqsUpTo(S, n - 1)
         IN  shorter \cup {Append(seq, x) : seq \in shorter, x \in S}

\* A profile the store holds before load and no record of the bounds describes.
OldProfile == ProfileOf(FullRecord("old", "x"))

InitStore ==
    /\ ThreadsIdle
    /\ GraphIdle /\ MapperIdle /\ ProfileIdle /\ ActionIdle /\ WorkspaceIdle
    /\ ShortcutIdle /\ PlayerIdle /\ ScriptIdle
    /\ pc = "idle" /\ event = NoEvent /\ idx = 0 /\ dispatched = FALSE
    /\ triggered = <<>> /\ visited = {} /\ stack = <<>> /\ result = <<>>
    /\ processed = <<>> /\ skipped = <<>> /\ spawned = <<>>
    /\ failed = <<>> /\ adjusted = <<>> /\ volume_last_value = None
    /\ last_values = NoValues /\ entry_values = NoValues /\ previous = Untracked
    /\ profiles \in {<<>>, <<OldProfile>>, <<ProfileOf(FullRecord("a", "x")), OldProfile>>}
    /\ s_data \in SeqsUpTo(Records, MaxRecords)
    /\ s_old = profiles
    /\ s_pc = "ready"
    /\ s_source = <<>>

LoadCall ==
    /\ s_pc = "ready"
    /\ profiles' = Load(profiles, s_data)
    /\ s_pc' = "done"
    /\ UNCHANGED <<s_data, s_old, s_source>>
    /\ UNCHANGED <<graphVars, mapperVars, profileVars, actionVars, workspaceVars, shortcutVars,
                   playerVars, scriptVars, threadVars>>
    /\ UNCHANGED <<pc, event, idx, dispatched, triggered, visited, stack, result,
                   processed, skipped, spawned, failed, adjusted,
                   volume_last_value, last_values, entry_values, previous>>

NextStore == LoadCall

SpecStore == InitStore /\ [][NextStore]_vars

(* SpecRoundTrip: serialize() of a store the program has built, loaded into  *)
(* any store.                                                                *)

\* serialize(): one record per profile, in the order of the dict.
Serialize(store) ==
    [i \in DOMAIN store |->
        [id |-> store[i].id, name |-> store[i].name, device_port |-> store[i].device_port,
         message_type |-> store[i].message_type, control_type |-> store[i].control_type,
         channel |-> store[i].channel, control |-> store[i].control, note |-> store[i].note,
         aliases |-> store[i].aliases]]

\* Profiles as add_from_event builds them from a control_change, a note_on and
\* a pitchwheel event, and one as load builds it from a record with the
\* required keys only.
LearnedProfiles ==
    { ControlProfile("a", "portA CC7", "portA", "control_change", "continuous", 0, 7, None, <<>>),
      ControlProfile("b", "NOTE60", "unknown", "note_on", "button", 0, None, 60, <<"alias">>),
      ControlProfile("c", "portB pitchwheel", "portB", "pitchwheel", "pitchwheel", 1, None,
                     None, <<"alias", "other">>),
      ControlProfile("d", "x", "portA", "control_change", "", None, None, None, <<>>) }

\* The most profiles a serialized store holds.
MaxProfiles == 2

\* The stores of up to MaxProfiles profiles: no two profiles share an id.
LearnedStores ==
    { store \in SeqsUpTo(LearnedProfiles, MaxProfiles) :
        \A i, j \in DOMAIN store : store[i].id = store[j].id => i = j }

InitRoundTrip ==
    /\ ThreadsIdle
    /\ GraphIdle /\ MapperIdle /\ ProfileIdle /\ ActionIdle /\ WorkspaceIdle
    /\ ShortcutIdle /\ PlayerIdle /\ ScriptIdle
    /\ pc = "idle" /\ event = NoEvent /\ idx = 0 /\ dispatched = FALSE
    /\ triggered = <<>> /\ visited = {} /\ stack = <<>> /\ result = <<>>
    /\ processed = <<>> /\ skipped = <<>> /\ spawned = <<>>
    /\ failed = <<>> /\ adjusted = <<>> /\ volume_last_value = None
    /\ last_values = NoValues /\ entry_values = NoValues /\ previous = Untracked
    /\ s_source \in LearnedStores
    /\ profiles \in {<<>>, <<OldProfile>>, s_source}
    /\ s_data = <<>>
    /\ s_old = profiles
    /\ s_pc = "stored"

\* data = S.serialize()
SerializeCall ==
    /\ s_pc = "stored"
    /\ s_data' = Serialize(s_source)
    /\ s_pc' = "ready"
    /\ UNCHANGED <<s_old, s_source>>
    /\ UNCHANGED <<graphVars, engineVars, mapperVars, profileVars, actionVars, workspaceVars,
                   shortcutVars, playerVars, scriptVars, threadVars>>

NextRoundTrip == SerializeCall \/ LoadCall

SpecRoundTrip == InitRoundTrip /\ [][NextRoundTrip]_vars

-----------------------------------------------------------------------------
(* MidiInputController and MainWindow._handle_midi_event (app/midi/        *)
(* controller.py, app/ui/main_window.py): the way from the callbacks of    *)
(* the open input ports to ActionEngine.handle_event.  The controller and  *)
(* the window are QObjects created by the main thread; the signal          *)
(* message_received is connected to the slot with the default connection   *)
(* type, which Qt resolves when the signal is emitted: a queued call on    *)
(* the receiver's thread when the emitting thread is another one.          *)

\* The messages the ports deliver before the model stops them.
MaxMessages == 4

\* The values of the control_change messages of the ports.
PortValues == {0, 2}
\* The aliases _on_message finds for a port in _virtual_sources.
PortAliases == {<<>>, <<"virtual">>}

\* The event loop posts the call to the receiver's thread rather than calling
\* the slot in place.
DirectDelivery(current, receiver) == FALSE

\* Qt's default connection type of connect(): queued exactly when the signal
\* is emitted on a thread other than the receiver's.
QueuedDelivery(current, receiver) == current # receiver

\* A call of the slot on its first line, for this event.
SlotCall(ev) == [step |-> "slot", event |-> ev]

\* The calls of the slot that are in progress, as <<thread, depth>>.
SlotCalls == {<<t, i>> \in Threads \X (1..MaxMessages) : i <= Len(d_running[t])}

\* The event loop of a thread takes a posted call when the thread is in no
\* slot, or when the slot it is in has opened a modal dialog, whose exec()
\* runs an event loop of its own.
LoopRuns(frames) == IF frames = <<>> THEN TRUE ELSE frames[Len(frames)].step = "dialog"

InitDispatch ==
    /\ GraphIdle /\ EngineIdle /\ MapperIdle /\ ProfileIdle /\ ActionIdle /\ StoreIdle
    /\ WorkspaceIdle /\ ShortcutIdle /\ PlayerIdle /\ ScriptIdle
    /\ ThreadsIdle

DispatchUnchanged ==
    UNCHANGED <<graphVars, engineVars, mapperVars, profileVars, actionVars, storeVars,
                workspaceVars, shortcutVars, playerVars, scriptVars>>

\* _on_message(port_name, message), called by the MIDI backend on the thread of
\* the port: builds the event and emits message_received.
OnMessage(port, v, aliases) ==
    /\ d_emitted < MaxMessages
    /\ d_running[port] = <<>>
    /\ d_emitted' = d_emitted + 1
    /\ LET ev == MidiEvent("control_change", 0, 7, v, None, None, port, aliases)
       IN IF QueuedDelivery(port, "main")
          THEN /\ d_queue' = Append(d_queue, ev)
               /\ UNCHANGED d_running
          ELSE /\ d_running' = [d_running EXCEPT ![port] = Append(@, SlotCall(ev))]
               /\ UNCHANGED d_queue
    /\ DispatchUnchanged

\* QApplication.exec() on the main thread delivers the oldest posted call.
ProcessEvent ==
    /\ d_queue # <<>>
    /\ LoopRuns(d_running["main"])
    /\ d_running' = [d_running EXCEPT !["main"] = Append(@, SlotCall(Head(d_queue)))]
    /\ d_queue' = Tail(d_queue)
    /\ UNCHANGED d_emitted
    /\ DispatchUnchanged

\* _handle_midi_event up to the call of handle_event: _complete_learn opens a
\* message box when a learn is pending and the event has no source, and the
\* slot then waits in it for the user; otherwise the status texts follow.
SlotStep(t) ==
    /\ d_running[t] # <<>>
    /\ LET top == d_running[t][Len(d_running[t])]
       IN /\ top.step = "slot"
          /\ \E pending_learn \in BOOLEAN :
                d_running' = [d_running EXCEPT ![t][Len(d_running[t])].step =
                                 IF pending_learn /\ top.event.source = NULL
                                 THEN "dialog" ELSE "handle_event"]
    /\ UNCHANGED <<d_queue, d_emitted>>
    /\ DispatchUnchanged

\* self._action_engine.handle_event(event) returns, the traversal and the
\* actions done, and the slot returns after it.
SlotReturns(t) ==
    /\ d_running[t] # <<>>
    /\ d_running[t][Len(d_running[t])].step = "handle_event"
    /\ d_running' = [d_running EXCEPT ![t] = SubSeq(@, 1, Len(@) - 1)]
    /\ UNCHANGED <<d_queue, d_emitted>>
    /\ DispatchUnchanged

NextDispatch ==
    \/ \E port \in Ports, v \in PortValues, aliases \in PortAliases : OnMessage(port, v, aliases)
    \/ ProcessEvent
    \/ \E t \in Threads : SlotStep(t)
    \/ \E t \in Threads : SlotReturns(t)

SpecDispatch == InitDispatch /\ [][NextDispatch]_vars


-----------------------------------------------------------------------------
(* Claims about the value mapper (SpecMapper).                             *)

\* The bounds and curve _apply_mapper reads from the config under test.
InMin  == ConfigGet(m_cfg, "input_min", 0)
InMax  == ConfigGet(m_cfg, "input_max", 127)
OutMin == ConfigGet(m_cfg, "output_min", 0)
OutMax == ConfigGet(m_cfg, "output_max", 127)
CurveOf == ConfigGet(m_cfg, "curve", "linear")
Mapped == m_pc = "done" /\ m_in.value # None

\* C4 as stated: for every configuration and every integer input value the value
\* of the emitted event lies in [output_min, output_max] inclusive.
C4_AlwaysInOutputRange ==
    Mapped => (OutMin <= m_out.value /\ m_out.value <= OutMax)

\* C4, amended: the emitted value lies in [output_min, output_max] whenever
\* output_min <= output_max; with output_min > output_max (an empty interval) the
\* emitted value is output_min.
C4_ClampedToOutputBounds ==
    Mapped =>
        /\ OutMin <= OutMax => (OutMin <= m_out.value /\ m_out.value <= OutMax)
        /\ OutMin > OutMax => m_out.value = OutMin

\* C4 witness: an input above input_max was mapped, by a non-linear curve, onto
\* output_max of a proper output range.
C4_Witness ==
    /\ Mapped
    /\ InMin < InMax /\ m_in.value > InMax
    /\ OutMin < OutMax /\ m_out.value = OutMax
    /\ CurveOf = "log"

\* C5 as stated: with curve "linear" and input bounds equal to output bounds,
\* mapping value V yields V, for every V.
C5_LinearIdentityEverywhere ==
    (Mapped /\ CurveOf = "linear" /\ InMin = OutMin /\ InMax = OutMax)
        => m_out.value = m_in.value

\* C5, amended: with curve "linear" and input bounds equal to output bounds,
\* mapping a value V with input_min <= V <= input_max yields V.
C5_LinearIdentityInRange ==
    (Mapped /\ CurveOf = "linear" /\ InMin = OutMin /\ InMax = OutMax
            /\ InMin <= m_in.value /\ m_in.value <= InMax)
        => m_out.value = m_in.value

\* C5 witness: a value strictly inside equal input and output bounds was mapped
\* linearly onto itself.
C5_Witness ==
    /\ Mapped /\ CurveOf = "linear" /\ "curve" \in DOMAIN m_cfg
    /\ InMin = OutMin /\ InMax = OutMax
    /\ InMin < m_in.value /\ m_in.value < InMax
    /\ m_out.value = m_in.value

StepOne == Mapped /\ CurveOf = "step" /\ ConfigGet(m_cfg, "steps", 8) = 1

\* C6 as stated: with curve "step" and steps = 1 every input maps to output_min.
C6_StepOneAlwaysOutputMin ==
    StepOne => m_out.value = OutMin

\* C6, amended: with curve "step" and steps = 1 an input maps to output_min when
\* its normalized value (value - input_min) / max(1, input_max - input_min),
\* clamped to [0, 1], is at most 1/2, or when output_min >= output_max; it maps
\* to output_max otherwise.
C6_StepOneTwoLevels ==
    StepOne =>
        LET den == IF InMax - InMin >= 1 THEN InMax - InMin ELSE 1
            low == 2 * (m_in.value - InMin) <= den
        IN  m_out.value = IF low \/ OutMin >= OutMax THEN OutMin ELSE OutMax

\* C6 witness: with steps = 1 an input exactly at the midpoint of the input range
\* was mapped to output_min of a proper output range.
C6_Witness ==
    /\ StepOne
    /\ 2 * (m_in.value - InMin) = InMax - InMin /\ InMin < InMax
    /\ OutMin < OutMax /\ m_out.value = OutMin

-----------------------------------------------------------------------------
(* Claims about ControlProfile.matches_event (SpecProfile).                *)

DeviceMatches ==
    \/ p_event.source = p_profile.device_port
    \/ \E i \in 1..Len(p_event.aliases) : p_event.aliases[i] = p_profile.device_port

FieldMatches(field) ==
    p_profile[field] = None \/ p_event[field] = p_profile[field]

\* C7: matches_event is true iff the event's source is the profile's device_port
\* or device_port is one of the event's aliases, the message types are equal, and
\* every non-null field among channel, control, note equals the event's field; a
\* profile whose three fields are null matches every event of its device_port and
\* message_type.
C7_MatchesIffAllHold ==
    p_pc = "done" =>
        /\ p_out <=> ( /\ DeviceMatches
                       /\ p_event.message_type = p_profile.message_type
                       /\ FieldMatches("channel")
                       /\ FieldMatches("control")
                       /\ FieldMatches("note") )
        /\ ( /\ p_profile.channel = None /\ p_profile.control = None
             /\ p_profile.note = None
             /\ DeviceMatches /\ p_event.message_type = p_profile.message_type )
           => p_out

\* C7 witness: a profile with null channel, control and note matched an event that
\* carries a channel, a control and a note and reaches it only through an alias.
C7_Witness ==
    /\ p_pc = "done" /\ p_out
    /\ p_profile.channel = None /\ p_profile.control = None /\ p_profile.note = None
    /\ p_event.source # p_profile.device_port
    /\ p_event.channel # None /\ p_event.control # None /\ p_event.note # None

-----------------------------------------------------------------------------
(* Claims about NodeGraph (SpecGraph).                                     *)

\* Some connection of conns ends at the target port of edge.
EndsAtTarget(conns, edge) ==
    \E i \in 1..Len(conns) :
        conns[i].target_node = edge.target_node /\ conns[i].target_port = edge.target_port

\* The reason can_connect gives for a second edge into a connected input port.
TargetTakenReason == "Target port already has an incoming connection."

\* C8: connect appends exactly the requested edge and returns true iff can_connect
\* accepts it, and otherwise returns false and leaves the connection list as it
\* was; can_connect refuses every edge into a port that already has an incoming
\* connection, with the target-port reason when the edge is a new one that would
\* be accepted without that connection, and connect then changes nothing.
C8_ConnectIffCanConnect ==
    /\ [](\A edge \in Edges :
            LET can == CanConnect(nodes, connections, edge)
            IN  /\ EndsAtTarget(connections, edge) => (~can[1] /\ can[2] # NULL)
                /\ ( /\ EndsAtTarget(connections, edge)
                     /\ CanConnect(nodes, <<>>, edge)[1]
                     /\ \A i \in 1..Len(connections) : connections[i] # edge )
                   => can[2] = TargetTakenReason)
    /\ [][call'.op = "connect" =>
            \A edge \in Edges : Connect(edge) =>
                LET can == CanConnect(nodes, connections, edge)
                IN  /\ call'.ret = can[1]
                    /\ can[1] => connections' = connections \o <<edge>>
                    /\ ~can[1] => connections' = connections
                    /\ EndsAtTarget(connections, edge) =>
                         (~call'.ret /\ connections' = connections)
         ]_vars

\* C8 witness: a connect was refused and changed nothing while a connection was
\* present whose target port can_connect reports as taken.
C8_Witness ==
    /\ call.op = "connect" /\ ~call.ret
    /\ Len(connections) = 1
    /\ \E edge \in Edges :
         CanConnect(nodes, connections, edge) = <<FALSE, TargetTakenReason>>

\* C9: after remove_node(n) no connection has n as its source_node or target_node,
\* and every connection that touched n at neither end is still present.
C9_RemoveNodeDropsItsEdges ==
    [][\A n \in NodeIds : RemoveNode(n) =>
        /\ \A i \in 1..Len(connections') :
             connections'[i].source_node # n /\ connections'[i].target_node # n
        /\ \A i \in 1..Len(connections) :
             (connections[i].source_node # n /\ connections[i].target_node # n)
                => \E j \in 1..Len(connections') : connections'[j] = connections[i]
      ]_vars

\* C9 witness: a remove_node removed connections of the node and kept another.
C9_Witness ==
    /\ call.op = "remove_node" /\ call.dropped >= 1
    /\ Len(connections) >= 1

\* C10: every (target_node, target_port) pair has at most one incoming connection,
\* no connection has source_node equal to target_node, and no two connections are
\* the same 4-tuple.
C10_ConnectionInvariant ==
    /\ \A i, j \in 1..Len(connections) :
         ( /\ connections[i].target_node = connections[j].target_node
           /\ connections[i].target_port = connections[j].target_port ) => i = j
    /\ \A i \in 1..Len(connections) :
         connections[i].source_node # connections[i].target_node
    /\ \A i, j \in 1..Len(connections) : connections[i] = connections[j] => i = j

\* C10 witness: two connections are present, a third into one of their target
\* ports would be refused, and a disconnect has just removed another one.
C10_Witness ==
    /\ Len(connections) = 2
    /\ call.op = "disconnect"
    /\ \E edge \in Edges :
         CanConnect(nodes, connections, edge) = <<FALSE, TargetTakenReason>>

\* The port names can_connect is asked about: those of the nodes and one that
\* no node has.
ProbePorts == {"message", "in", "out", "absent"}

ProbeEdges ==
    { NodeConnection(sn, sp, tn, tp) :
        sn \in NodeIds, sp \in ProbePorts, tn \in NodeIds, tp \in ProbePorts }

\* The six checks in the order the claim gives them (port direction being two
\* tests), each as <<fails, reason>>, each decided on its own.
CheckOrder(ns, conns, edge) ==
    LET source == GetPort(ns, edge.source_node, edge.source_port)
        target == GetPort(ns, edge.target_node, edge.target_port)
    IN  << <<edge.source_node = edge.target_node, "Cannot connect a node to itself.">>,
           <<source = NoPort \/ target = NoPort, "One of the ports does not exist.">>,
           <<source.direction # "OUTPUT", "Source port must be an output.">>,
           <<target.direction # "INPUT", "Target port must be an input.">>,
           <<source.data_type # "any" /\ target.data_type # "any"
               /\ source.data_type # target.data_type, "Incompatible port data types.">>,
           <<\E i \in DOMAIN conns : conns[i] = edge, "Connection already exists.">>,
           <<EndsAtTarget(conns, edge), TargetTakenReason>> >>

\* The verdict that names the earliest failing check.
FirstFailure(checks) ==
    LET failing == {i \in DOMAIN checks : checks[i][1]}
    IN  IF failing = {} THEN <<TRUE, NULL>>
        ELSE <<FALSE, checks[CHOOSE i \in failing : \A j \in failing : i <= j][2]>>

\* C11: can_connect makes its checks in the order self-loop, port existence,
\* source is an output, target is an input, data-type compatibility, duplicate
\* edge, single incoming edge, and returns the reason of the earliest that fails.
C11_FirstFailingCheckReported ==
    \A edge \in ProbeEdges :
        CanConnect(nodes, connections, edge) = FirstFailure(CheckOrder(nodes, connections, edge))

\* Several checks fail at once, in each of these ways, and a connect has just
\* been refused: a duplicate of a connection (whose target port is then taken
\* too), a self-loop on a missing port, and an input wired to an output.
C11_Witness ==
    /\ call = [op |-> "connect", ret |-> FALSE]
    /\ \E edge \in ProbeEdges :
         LET checks == CheckOrder(nodes, connections, edge)
         IN  checks[6][1] /\ checks[7][1] /\ ~checks[1][1]
    /\ \E edge \in ProbeEdges :
         LET checks == CheckOrder(nodes, connections, edge)
         IN  checks[1][1] /\ checks[2][1]
    /\ \E edge \in ProbeEdges :
         LET checks == CheckOrder(nodes, connections, edge)
         IN  ~checks[1][1] /\ ~checks[2][1] /\ checks[3][1] /\ checks[4][1]

-----------------------------------------------------------------------------
(* Claims about ActionEngine.handle_event (SpecEngine, SpecEngineFair).     *)

\* A handle_event call is in progress.
Running == pc \in {"primary", "fallback"}

\* C1: for every event, handle_event on an empty graph returns the empty tuple
\* at once and has no side effect: no node is processed, no process is spawned,
\* and the debounce state of the Command action is left as it was.
C1_EmptyGraphNoEffect ==
    [][\A ev \in EngineEvents :
         (IsEmpty(nodes) /\ HandleEvent(ev)) =>
            /\ pc' = "done"
            /\ result' = <<>>
            /\ triggered' = <<>>
            /\ processed' = <<>>
            /\ spawned' = <<>>
            /\ last_values' = last_values]_vars

\* A call on the empty graph has returned, for a control change whose value is
\* not the one the Command action remembers from an earlier call.
C1_Witness ==
    /\ pc = "done" /\ idx = 0
    /\ IsEmpty(nodes)
    /\ event.message_type = "control_change"
    /\ last_values[event.control] # None
    /\ last_values[event.control] # event.value

\* C2: on every finite graph, cyclic ones with value-changing mappers included,
\* and for every event, a handle_event call in progress reaches quiescence and
\* returns.
C2_DispatchTerminates == Running ~> (pc = "done")

\* A call has ended in RecursionError on the loop of two wide mappers: every
\* signature processed is new, the visited guard never fired, and the nesting
\* reached the depth at which the interpreter has no frames left.
C2_Witness ==
    /\ pc = "raised"
    /\ skipped = <<>>
    /\ Cardinality(visited) = Len(processed)
    /\ StackOverflows(Len(processed))

\* C3: within one handle_event call no node is processed twice for the same
\* signature (node id, channel, control, note, value), whichever root the
\* traversal came from; visited holds exactly the signatures processed.
C3_NoSignatureProcessedTwice ==
    /\ visited = {processed[i] : i \in DOMAIN processed}
    /\ Cardinality(visited) = Len(processed)

\* Two roots were dispatched to, and the traversal from the second root was
\* stopped at a node already processed, for the same signature, from the first.
C3_Witness ==
    /\ pc = "done"
    /\ Len(triggered) >= 2
    /\ \E s \in DOMAIN skipped : \E p \in DOMAIN processed :
         /\ skipped[s] = processed[p]
         /\ skipped[s][1] \notin {triggered[t] : t \in DOMAIN triggered}
         /\ processed[Len(processed)][1] = triggered[Len(triggered)]

\* The nodes that accept the event of the call when it is handed to them as it
\* arrived, in the order of nodes().values(): the midi.input nodes among them,
\* and those without an incoming connection.
AcceptsArrived(node) ==
    NodeAcceptsEvent(node, event, MatchingProfiles(profiles, event), profiles)

AcceptingInputs ==
    LET Input(node) == node.type = "midi.input" /\ AcceptsArrived(node)
    IN  SelectSeq(nodes, Input)

AcceptingOrphans ==
    LET Orphan(node) ==
            /\ \A i \in DOMAIN connections : connections[i].target_node # node.id
            /\ AcceptsArrived(node)
    IN  SelectSeq(nodes, Orphan)

IdsOf(ns) == [i \in DOMAIN ns |-> ns[i].id]

\* C15: a node that is no midi.input is used as a root only when no midi.input
\* node accepted the event; the roots are then exactly the nodes without an
\* incoming connection that accept it. When a midi.input node accepts, the
\* fallback loop does not run and the roots are the accepting midi.input nodes.
C15_FallbackOnlyWithoutInput ==
    /\ pc = "fallback" => AcceptingInputs = <<>>
    /\ pc = "done" /\ ~IsEmpty(nodes) =>
          result = IF AcceptingInputs # <<>> THEN IdsOf(AcceptingInputs)
                   ELSE IdsOf(AcceptingOrphans)

\* A call has returned a root that is no midi.input: the graph has a midi.input
\* node, which rejected the event, and a node that accepts the event and is no
\* root because a connection leads to it.
C15_Witness ==
    /\ pc = "done"
    /\ \E i \in DOMAIN nodes : nodes[i].type = "midi.input"
    /\ \E i \in DOMAIN nodes : nodes[i].type # "midi.input" /\ InSeq(nodes[i].id, result)
    /\ \E i \in DOMAIN nodes :
          /\ AcceptsArrived(nodes[i])
          /\ HasIncoming(connections, nodes[i].id)
          /\ ~InSeq(nodes[i].id, result)

\* The acceptance rule: a node bound to device ports takes the event of one of
\* them, by source or by alias; a node bound to a profile takes the event when
\* the store holds that profile and the profile matches the event.
AcceptanceRule(node, ev) ==
    /\ \/ "device_ports" \notin DOMAIN node.config
       \/ node.config.device_ports = <<>>
       \/ \E i \in DOMAIN node.config.device_ports :
             \/ node.config.device_ports[i] = ev.source
             \/ InSeq(node.config.device_ports[i], ev.aliases)
    /\ \/ "profile_id" \notin DOMAIN node.config
       \/ node.config.profile_id \in {NULL, ""}
       \/ \E i \in DOMAIN profiles :
             /\ profiles[i].id = node.config.profile_id
             /\ MatchesEvent(profiles[i], ev)

\* The event as it arrives at the node a step processes: the event of the call
\* at a root, the event of the innermost frame at a hop.
Arriving == IF stack = <<>> THEN event ELSE stack[Len(stack)].event

\* C16: a node is processed only if it passed the acceptance rule for the event
\* as it arrived at it, at the root as at every hop; a node rejected at a hop is
\* neither processed nor propagated through: a step that processes a node
\* processes one that the rule accepts for the arriving event, and only such a
\* step opens the propagation from a node.
C16_OnlyAcceptedNodesProcessed ==
    [][/\ Len(processed') > Len(processed) =>
            LET signature == processed'[Len(processed')]
                node == GetNode(nodes, signature[1])
            IN  /\ Len(processed') = Len(processed) + 1
                /\ signature = Signature(node, Arriving)
                /\ AcceptanceRule(node, Arriving)
       /\ Len(stack') > Len(stack) =>
            /\ Len(processed') = Len(processed) + 1
            /\ Len(stack') = Len(stack) + 1
            /\ stack'[Len(stack')].node = processed'[Len(processed')][1]]_vars

\* A call has returned in which a node bound to a profile was rejected at a
\* hop, the store holding the profile for another device: a processed node is
\* connected to it, it was not processed, and neither was the node behind it,
\* which accepts every event.
C16_Witness ==
    /\ pc = "done"
    /\ profiles # <<>>
    /\ \E i, j \in DOMAIN connections :
          LET hop == connections[i]
              behind == connections[j]
              Processed(id) == \E k \in DOMAIN processed : processed[k][1] = id
          IN  /\ Processed(hop.source_node)
              /\ ~Processed(hop.target_node)
              /\ "profile_id" \in DOMAIN GetNode(nodes, hop.target_node).config
              /\ behind.source_node = hop.target_node
              /\ ~Processed(behind.target_node)
              /\ AcceptanceRule(GetNode(nodes, behind.target_node), event)

\* The fields of an event other than its value.
FrameFields == {"message_type", "channel", "control", "note", "velocity", "source", "aliases"}

\* C25: a logic.mapper never changes the event it receives. Whenever a node is
\* traversed and begins to propagate, the event it emits differs from the one
\* it received in the value at most; it is the event received when the node is
\* no mapper or the value is null; and the events of the frames below, which
\* the predecessors still deliver to their other branches, are what they were.
C25_MapperEmitsCopy ==
    [][Len(stack') = Len(stack) + 1 =>
         LET arrived == IF stack = <<>> THEN event ELSE stack[Len(stack)].event
             frame   == stack'[Len(stack')]
         IN  /\ \A f \in FrameFields : frame.event[f] = arrived[f]
             /\ GetNode(nodes, frame.node).type # "logic.mapper" => frame.event = arrived
             /\ arrived.value = None => frame.event = arrived
             /\ \A i \in DOMAIN stack : stack'[i].event = stack[i].event]_vars

\* A mapper has emitted a value other than the one it received, and its
\* predecessor has another branch to deliver the original event to.
C25_Witness ==
    /\ Len(stack) = 2
    /\ GetNode(nodes, stack[2].node).type = "logic.mapper"
    /\ stack[1].event = event
    /\ stack[2].event.value # event.value
    /\ stack[2].event = [event EXCEPT !.value = stack[2].event.value]
    /\ stack[1].pending # <<>>

\* A mapper has received an event without a value and emitted it as it is.
NullEventThroughMapper ==
    /\ Len(stack) = 2
    /\ GetNode(nodes, stack[2].node).type = "logic.mapper"
    /\ stack[1].event.value = None
    /\ stack[2].event = stack[1].event

\* C26: the visited set lives for one handle_event call. When a call that has
\* returned is followed by a call with the same event on the same graph, the
\* second call traverses the same nodes: it processes the same signatures in
\* the same order, and skips none because of the first call.
C26_VisitedPerCall ==
    pc = "done" /\ previous.tracked => processed = previous.processed

\* The same event was dispatched twice in a row on a graph where it passes a
\* mapper and reaches a Command node: the second call has returned, having
\* processed three nodes again, and the Command node spawned nothing this time.
C26_Witness ==
    /\ pc = "done"
    /\ previous.tracked
    /\ Len(processed) = 3
    /\ processed = previous.processed
    /\ GetNode(nodes, processed[2][1]).type = "logic.mapper"
    /\ GetNode(nodes, processed[3][1]).type = "action.command"
    /\ spawned = <<>>

-----------------------------------------------------------------------------
(* Claims about errors during a dispatch (SpecEngineErrors).                *)

\* The roots of the call: the accepting midi.input nodes, or without one the
\* accepting nodes without incoming connection.
ExpectedRoots ==
    IF AcceptingInputs # <<>> THEN IdsOf(AcceptingInputs) ELSE IdsOf(AcceptingOrphans)

\* The event a processed signature stands for: a mapper changes the value only.
ArrivedAs(signature) == [event EXCEPT !.value = signature[5]]

\* What the node of a processed signature hands on: <<port, event>>.
OutputsOf(signature) ==
    LET node == GetNode(nodes, signature[1])
    IN  IF node.type = "midi.input" THEN {<<"message", ArrivedAs(signature)>>}
        ELSE IF node.type = "logic.mapper"
        THEN {<<"out", ApplyMapper(node.config, ArrivedAs(signature))>>}
        ELSE {}

\* Nothing of the traversal is left out: every root was traversed, and so was
\* every node that a traversed node hands an event it accepts.
TraversalComplete ==
    /\ \A i \in DOMAIN result : Signature(GetNode(nodes, result[i]), event) \in visited
    /\ \A signature \in visited : \A out \in OutputsOf(signature) :
          \A i \in DOMAIN connections :
             LET target == GetNode(nodes, connections[i].target_node)
             IN  /\ connections[i].source_node = signature[1]
                 /\ connections[i].source_port = out[1]
                 /\ AcceptanceRule(target, out[2])
                 => Signature(target, out[2]) \in visited

MissingOrInvalidField(config) ==
    \/ \E key \in {"input_min", "input_max", "output_min", "output_max"} :
          key \notin DOMAIN config \/ config[key] = Invalid
    \/ /\ ConfigGet(config, "curve", "linear") = "step"
       /\ ("steps" \notin DOMAIN config \/ config.steps = Invalid)

\* The node processed last in the call.
LastProcessed == GetNode(nodes, processed[Len(processed)][1])

\* C18: a missing or invalid config field never makes a dispatch fail: at a
\* logic.mapper node whose input_min, input_max, output_min, output_max or steps
\* is missing or not a number handle_event does not raise, and the traversal
\* and the tuple returned are those of a mapper that used the defaults.
C18_MapperConfigNeverRaises ==
    /\ processed # <<>> /\ ~IsEmpty(nodes)
       /\ LastProcessed.type = "logic.mapper"
       /\ MissingOrInvalidField(LastProcessed.config)
       => pc # "raised"
    /\ pc = "done" /\ ~IsEmpty(nodes) => result = ExpectedRoots /\ TraversalComplete

\* handle_event has ended with an exception at a mapper whose input_min is no
\* number: the Command node behind the mapper was not processed.
C18_Witness ==
    /\ pc = "raised"
    /\ processed # <<>>
    /\ LastProcessed.type = "logic.mapper"
    /\ LastProcessed.config.input_min = Invalid
    /\ \E i \in DOMAIN connections :
          /\ connections[i].source_node = LastProcessed.id
          /\ GetNode(nodes, connections[i].target_node).type = "action.command"
          /\ \A k \in DOMAIN processed : processed[k][1] # connections[i].target_node

-----------------------------------------------------------------------------
(* Claims about the chain of the default preset (SpecScenario).              *)

\* The chain input -> mapper 0-127 -> 0-100 -> Volume 0-127 -> 0.0-1.0 has
\* dispatched control_change(control=7, value=127) from its input.
ScenarioDispatched ==
    /\ pc = "done"
    /\ Len(nodes) = 3
    /\ nodes[2].config = BrushMapperConfig
    /\ nodes[3].config = SystemVolumeConfig
    /\ event.message_type = "control_change" /\ event.control = 7 /\ event.value = 127
    /\ result = <<nodes[1].id>>

\* The mapper emitted the value to the Volume node.
Emitted(value) ==
    \E i \in DOMAIN processed :
        processed[i] = Signature(nodes[3], [event EXCEPT !.value = value])

\* The rationals a and b are equal.
SameLevel(a, b) == a[1] * b[2] = b[1] * a[2]

\* C23 as stated: in the scenario the mapper emits 100 to the Volume node and
\* the Volume action computes a target level of 1.0.
C23_ScenarioLevelOne ==
    ScenarioDispatched =>
        /\ Emitted(100)
        /\ \A i \in DOMAIN adjusted : SameLevel(adjusted[i].level, <<1, 1>>)

\* C23, amended: in the scenario the mapper emits 100 to the Volume node, and
\* the Volume action, which applies its own bounds 0-127 to the mapped value,
\* computes the target level 100/127 (about 0.787); it computes it unless the
\* value it saw last was 100 already.
C23_ScenarioLevel ==
    ScenarioDispatched =>
        /\ Emitted(100)
        /\ volume_last_value = 100
        /\ Len(adjusted) <= 1
        /\ \A i \in DOMAIN adjusted :
              /\ adjusted[i].id = nodes[3].id
              /\ SameLevel(adjusted[i].level, <<100, 127>>)

\* The scenario was dispatched and the Volume action set a level.
C23_Witness ==
    /\ ScenarioDispatched
    /\ Emitted(100)
    /\ Len(adjusted) = 1
    /\ SameLevel(adjusted[1].level, <<100, 127>>)

-----------------------------------------------------------------------------
(* Claims about the exported workspace (SpecWorkspace).                     *)

\* The renderer-facing keys of a node config.
TransientKeys == {"_display_last_value", "_display_last_active", "_display_last_raw"}

\* C19: the transient keys written into a node config after a dispatch never
\* appear in the persisted workspace: whatever events were handled before
\* export_graph, no exported node config holds one of them.
C19_NoTransientKeyExported ==
    \A i \in DOMAIN exported.nodes :
        DOMAIN exported.nodes[i].config \cap TransientKeys = {}

\* A graph was exported after an event was shown on an input node: the exported
\* config of the node holds the three keys, with the values of the event.
C19_Witness ==
    /\ exported.version = 1
    /\ \E i \in DOMAIN exported.nodes :
          /\ TransientKeys \subseteq DOMAIN exported.nodes[i].config
          /\ exported.nodes[i].config["_display_last_raw"] = 64
          /\ exported.nodes[i].config["_display_last_active"]

-----------------------------------------------------------------------------
(* Claims about CommandAction.handle_event (SpecCommand).                   *)

\* A node with a configured command: one that reaches Popen when it triggers.
CommandConfigured(config) ==
    \/ "command" \in DOMAIN config /\ config.command # ""
    \/ "args" \in DOMAIN config /\ config.args # <<>>

\* The trigger condition the claim gives: a control_change whose value differs
\* from the last value seen for its control, or a note_on with velocity > 0.
CommandTrigger(ev, lv) ==
    \/ /\ ev.message_type = "control_change"
       /\ lv[IF ev.control # None THEN ev.control ELSE -1] # ev.value
    \/ /\ ev.message_type = "note_on"
       /\ ev.velocity # None /\ ev.velocity > 0

\* C12: a Command node with a configured command spawns a process exactly when
\* the event is a control_change whose value changed since the last value seen
\* for that control, or a note_on with velocity > 0; no other event spawns one.
C12_SpawnsExactlyOnTrigger ==
    [][\A ev \in ActionEvents : \A node \in CommandNodes :
          CommandHandleEvent(ev, node) /\ CommandConfigured(node.config)
              => (a_effects' = <<"Popen">> <=> CommandTrigger(ev, last_values))]_vars

\* A note_off has reached a configured Command node and a process was spawned.
C12_Witness ==
    /\ a_event.message_type = "note_off"
    /\ CommandConfigured(a_node.config)
    /\ a_effects = <<"Popen">>

-----------------------------------------------------------------------------
(* Claims about ShortcutAction.handle_event (SpecShortcut).                  *)

\* How many times a warning stands in the log.
Warnings(warning) == Cardinality({i \in DOMAIN shortcut_log : shortcut_log[i] = warning})

\* C20: the missing utility is warned about on the first event that hits it and
\* not again, and the empty sequence likewise, whatever the order in which the
\* two conditions occur: a condition that events have hit has exactly one
\* warning in the log, and one that no event has hit has none.
C20_EachConditionWarnedOnce ==
    \A condition \in {"no sequence", "no xdotool"} :
        Warnings(condition) = IF condition \in shortcut_hits THEN 1 ELSE 0

\* An event hit the missing utility after another had hit an empty sequence:
\* the log holds the warning of the empty sequence alone.
C20_Witness ==
    /\ shortcut_hits = {"no sequence", "no xdotool"}
    /\ shortcut_log = <<"no sequence">>
    /\ ShortcutHandle(a_node.config, a_event, shortcut_available, FALSE).hit = "no xdotool"

-----------------------------------------------------------------------------
(* Claims about SoundAction.handle_event (SpecSound).                       *)

\* A Sound node with an existing file and neither trigger_value nor min_value.
SoundUnfiltered(config) ==
    /\ \/ "file" \in DOMAIN config /\ config.file \in ExistingFiles
       \/ "path" \in DOMAIN config /\ config.path \in ExistingFiles
    /\ "trigger_value" \notin DOMAIN config
    /\ "min_value" \notin DOMAIN config

\* ev continues a run: the event before it at the node was a control_change
\* with the same control and the same value.
ContinuesRun(ev, before) ==
    /\ before.message_type = "control_change"
    /\ before.control = ev.control
    /\ before.value = ev.value

SoundWarnings(warning) == Cardinality({i \in DOMAIN sound_log : sound_log[i] = warning})

\* C21: over any sequence of events reaching Sound nodes, the warning about a
\* configured file that does not exist is logged once and not repeated for
\* later events, and the warning about the missing playback backend is logged
\* once over the whole sequence: no warning stands twice in the log.
C21_SoundWarningsLoggedOnce ==
    \A i, j \in DOMAIN sound_log : sound_log[i] = sound_log[j] => i = j

\* A second event has reached a Sound node whose file does not exist, the
\* warning about the file being in the log already.
C21_Witness ==
    /\ PathConfig(a_node.config) = "gone.wav"
    /\ SoundWarnings(MissingFile("gone.wav")) = 2
    /\ sound_log[Len(sound_log)] = MissingFile("gone.wav")

\* The missing backend is warned about once, however many playbacks are asked
\* for without a backend.
MissingBackendLoggedOnce ==
    /\ SoundWarnings(MissingBackend) <= 1
    /\ sound_warned_missing_backend <=> SoundWarnings(MissingBackend) = 1
    /\ sound_backend # NULL => SoundWarnings(MissingBackend) = 0

-----------------------------------------------------------------------------
(* Claims about ScriptAction.handle_event (SpecScript).                      *)

\* C22: a snippet run by the Script action can reach only event, node, context
\* and the safe built-ins, and nothing it can do gives it unrestricted file or
\* process access; in particular it cannot import a module: no snippet ever
\* holds a module and no file or process access is ever exercised.
C22_SnippetConfined ==
    /\ script_held \cap Modules = {}
    /\ script_access = {}

\* A running snippet has imported os, taken os.system from it and called it.
C22_Witness ==
    /\ script_pc = "exec"
    /\ {"os", "os.system"} \subseteq script_held
    /\ "process" \in script_access

-----------------------------------------------------------------------------
(* Claims about ControlProfileStore.load (SpecStore).                       *)

\* The positions of data that hold a record with every required key.
Loadable(data) == {j \in DOMAIN data : RequiredKeys \subseteq DOMAIN data[j]}

\* C14: load replaces the whole store; a record missing id, name, device_port
\* or message_type is skipped and the remaining records are loaded, so that
\* afterwards the store holds exactly the loaded records: every profile of the
\* store is the one built from a complete record, every complete record is in
\* the store under its id (the last one, for records that share an id), and
\* nothing the store held before remains.
C14_LoadReplacesStore ==
    s_pc = "done" =>
        /\ \A i \in DOMAIN profiles :
              \E j \in Loadable(s_data) : profiles[i] = ProfileOf(s_data[j])
        /\ \A j \in Loadable(s_data) :
              \/ \E i \in DOMAIN profiles : profiles[i] = ProfileOf(s_data[j])
              \/ \E k \in Loadable(s_data) : k > j /\ s_data[k].id = s_data[j].id
        /\ \A i, k \in DOMAIN profiles : profiles[i].id = profiles[k].id => i = k

\* load has run on a store that held profiles, with a record that lacks a
\* required key between two complete ones: both complete records are in the
\* store and nothing else.
C14_Witness ==
    /\ s_pc = "done"
    /\ Len(s_old) = 2
    /\ Len(s_data) = 3
    /\ Loadable(s_data) = {1, 3}
    /\ "name" \notin DOMAIN s_data[2]
    /\ profiles = <<ProfileOf(s_data[1]), ProfileOf(s_data[3])>>

-----------------------------------------------------------------------------
(* Claims about graphs of builtin nodes (SpecBuiltin).                     *)

\* The connections that end at a node.
IncomingEdges(node_id) == {i \in DOMAIN connections : connections[i].target_node = node_id}

\* The node ids reached from a node along one connection or more.
RECURSIVE ReachedFrom(_, _)
ReachedFrom(ids, rounds) ==
    LET next == ids \cup {connections[i].target_node :
                            i \in {j \in DOMAIN connections : connections[j].source_node \in ids}}
    IN  IF rounds = 0 \/ next = ids THEN ids ELSE ReachedFrom(next, rounds - 1)

\* The node lies on a cycle of connections.
OnCycle(node_id) ==
    \E i \in DOMAIN connections :
        /\ connections[i].source_node = node_id
        /\ node_id \in ReachedFrom({connections[i].target_node}, Len(connections))

\* Every connection ends at an input port its target node has.
TargetPortsExist ==
    \A i \in DOMAIN connections :
        GetPort(nodes, connections[i].target_node, connections[i].target_port).direction
            = "INPUT"

\* processed is that of a call on the graph as it is now: the graph has not
\* been edited since the call began.
CallOnThisGraph == previous.nodes = nodes /\ previous.connections = connections

\* The three consequences the claim draws.
ForestOfBuiltins ==
    /\ \A n \in DOMAIN nodes : Cardinality(IncomingEdges(nodes[n].id)) <= 1
    /\ CallOnThisGraph =>
          /\ \A i, j \in DOMAIN processed : processed[i][1] = processed[j][1] => i = j
          /\ \A i \in DOMAIN processed : ~OnCycle(processed[i][1])

ForestWhenPortsExist == TargetPortsExist => ForestOfBuiltins

-----------------------------------------------------------------------------
(* Claims about the ends of the connections (SpecGraph).                   *)

\* C30: after any sequence of add_node (a node under an id already in use
\* included), connect, disconnect, remove_node and clear calls, the
\* source_node and the target_node of every connection are ids of nodes that
\* are in the graph, so the engine never meets a connection whose target
\* node is missing.
C30_ConnectionsJoinPresentNodes ==
    \A i \in DOMAIN connections :
        /\ connections[i].source_node \in NodeIdsOf(nodes)
        /\ connections[i].target_node \in NodeIdsOf(nodes)

\* add_node has just replaced, under its id, a node that a connection ends at
\* by a node without the port of that connection: the connection is still
\* there, and its target is the new node.
C30_Witness ==
    /\ call.op = "add_node"
    /\ \E i \in DOMAIN connections :
          /\ connections[i].target_node \in NodeIdsOf(nodes)
          /\ GetPort(nodes, connections[i].target_node, connections[i].target_port) = NoPort

-----------------------------------------------------------------------------
(* Claims about the debounce table of the engine (SpecEngine).             *)

\* The positions of processed at which an action.command node was handed the
\* event of its signature.
CommandEntries ==
    {i \in DOMAIN processed :
        \E n \in DOMAIN nodes :
            nodes[n].id = processed[i][1] /\ nodes[n].type = "action.command"}

\* C28: the debounce table of the Command action is one per engine, shared by
\* all action.command nodes: when a control_change whose value differs from
\* the last value seen for its control reaches two action.command nodes with
\* a command in the same handle_event call, the first node reached spawns a
\* process and the second, seeing the value unchanged, spawns nothing. The
\* first node is the first Command node the call hands that control to, and
\* no other value of the control reaches a Command node between the two.
C28_SharedDebounce ==
    event.message_type = "control_change" =>
        \A i, j \in CommandEntries :
            /\ i < j
            /\ processed[i][1] # processed[j][1]
            /\ processed[i][3] = processed[j][3]
            /\ processed[i][5] = processed[j][5]
            /\ processed[i][5] # entry_values[processed[i][3]]
            /\ \A k \in CommandEntries :
                  k < j /\ processed[k][3] = processed[i][3] =>
                      k >= i /\ processed[k][5] = processed[i][5]
            => /\ \E p \in DOMAIN spawned : spawned[p] = processed[i][1]
               /\ \A p \in DOMAIN spawned : spawned[p] # processed[j][1]
               /\ last_values[processed[i][3]] = processed[i][5]

\* A call has returned in which the control_change of an input reached the
\* Command nodes n2 and n3 with a value new to the table: n2 alone spawned.
C28_Witness ==
    /\ pc = "done"
    /\ event.message_type = "control_change"
    /\ CommandEntries = {2, 3}
    /\ processed[2][1] = "n2" /\ processed[3][1] = "n3"
    /\ processed[2][5] = processed[3][5]
    /\ entry_values[7] # event.value
    /\ spawned = <<"n2">>

-----------------------------------------------------------------------------
(* Claims about the threads (SpecDispatch).                                *)

\* C27: handle_event calls never overlap: with several input ports open, each
\* delivering messages from its own callback, the events reach the main thread
\* one at a time through message_received, and the slot of one event, with
\* its traversal and action invocations, returns before the slot of the next
\* event starts; the only thread that is ever inside the slot is the main one.
C27_DispatchSerialized ==
    /\ Cardinality(SlotCalls) <= 1
    /\ \A t \in Ports : d_running[t] = <<>>

\* The main thread is inside handle_event for an event of portA while events
\* of portB and of portA, delivered meanwhile by their callbacks, wait.
C27_Witness ==
    /\ Len(d_running["main"]) = 1
    /\ d_running["main"][1].step = "handle_event"
    /\ d_running["main"][1].event.source = "portA"
    /\ Len(d_queue) = 2
    /\ d_queue[1].source = "portB"
    /\ d_queue[2].source = "portA"

-----------------------------------------------------------------------------
(* Claims about the round trip of profiles (SpecRoundTrip).                  *)

\* The fields of a profile.
ProfileFields ==
    {"id", "name", "device_port", "message_type", "control_type", "channel", "control",
     "note", "aliases"}

=============================================================================
